---- MODULE Spec2Model ----
(***************************************************************************)
(* Incident lifecycle manager: the service layer (IncidentService), the    *)
(* repository over the document store (IncidentRepository) and the event   *)
(* producer, as a state machine.                                           *)
(*                                                                         *)
(* Strings that the code parses (path identifiers, e-mail addresses) are   *)
(* sequences of one-character strings, so strconv.Atoi,                    *)
(* primitive.ObjectIDFromHex, ObjectID.Hex and strings.Trim are computed.  *)
(* Errors are the sequence of message segments that fmt.Errorf wraps, the  *)
(* nil error is the empty sequence.  A pointer is a sequence of length at  *)
(* most one, nil is the empty sequence.                                    *)
(***************************************************************************)
EXTENDS Integers, Sequences, FiniteSets, TLC

VARIABLES store, now, nextOid, last, procs

vars == <<store, now, nextOid, last, procs>>

----------------------------------------------------------------------------
(* Bounds of the model *)

(* ObjectIDs handed out (every insert and every event takes one) *)
MaxObjectIDs == 5

(* readings of the clock *)
MaxClock == 2

(* ObjectIDs handed out while pairs of requests change one incident (two
   notes added to a new incident take six) *)
MaxRaceObjectIDs == 6

----------------------------------------------------------------------------
(* models: enums and validation *)

Low == "low"
Medium == "medium"
High == "high"
Critical == "critical"

Open == "open"
InProgress == "in_progress"
Resolved == "resolved"
Closed == "closed"

ValidSeverities == <<Low, Medium, High, Critical>>

ValidStatuses == <<Open, InProgress, Resolved, Closed>>

(* IsValid that takes every severity for valid *)
SeverityIsValid_Any(s) == TRUE

SeverityIsValid(s) == \E i \in 1..Len(ValidSeverities) : ValidSeverities[i] = s

StatusIsValid(s) == \E i \in 1..Len(ValidStatuses) : ValidStatuses[i] = s

----------------------------------------------------------------------------
(* Strings as character sequences *)

Digits == <<"0", "1", "2", "3", "4", "5", "6", "7", "8", "9">>

HexDigits == Digits \o <<"a", "b", "c", "d", "e", "f">>

IsDigit(c) == \E i \in 1..Len(Digits) : Digits[i] = c

DigitVal(c) == (CHOOSE i \in 1..Len(Digits) : Digits[i] = c) - 1

RECURSIVE StripZeros(_)
StripZeros(s) ==
  IF Len(s) > 1 /\ Head(s) = "0" THEN StripZeros(Tail(s)) ELSE s

RECURSIVE DecValue(_)
DecValue(s) ==
  IF s = <<>> THEN 0 ELSE DecValue(SubSeq(s, 1, Len(s) - 1)) * 10 + DigitVal(s[Len(s)])

(* int64 holds every number of at most 18 digits and none of 20 or more *)
Int64Digits == 18

(* strconv.Atoi: (value, error); optional sign, decimal digits only, the
   value must fit the int type *)
Atoi(s) ==
  LET signed == Len(s) > 0 /\ Head(s) \in {"+", "-"}
      body == IF signed THEN Tail(s) ELSE s
      syntaxOk == Len(body) > 0 /\ \A i \in 1..Len(body) : IsDigit(body[i])
      sig == IF syntaxOk THEN StripZeros(body) ELSE <<>>
      rangeOk == Len(sig) <= Int64Digits
  IN IF syntaxOk /\ rangeOk
       THEN [val |-> IF signed /\ Head(s) = "-" THEN 0 - DecValue(sig) ELSE DecValue(sig),
             err |-> <<>>]
       ELSE [val |-> 0, err |-> <<"strconv.Atoi: parsing">>]

RECURSIVE Itoa(_)
Itoa(n) == IF n < 10 THEN <<Digits[n + 1]>> ELSE Itoa(n \div 10) \o <<Digits[(n % 10) + 1]>>

(* An ObjectID is 12 bytes: 4 bytes of seconds since the epoch, 5 bytes
   fixed per process, a 3-byte counter.  The bytes chosen for the first two
   parts print as decimal digits only, the case in which the hex form of an
   id differs least from a decimal number. *)
ObjectIDBytes == 12

OidPrefix == <<105, 0, 0, 0, 18, 52, 86, 120, 144, 0, 0>>

NilObjectID == [i \in 1..ObjectIDBytes |-> 0]

(* primitive.NewObjectID with the process-wide counter at n *)
NewObjectID(n) == OidPrefix \o <<n % 256>>

HexByte(b) == <<HexDigits[(b \div 16) + 1], HexDigits[(b % 16) + 1]>>

(* ObjectID.Hex *)
RECURSIVE Hex(_)
Hex(oid) == IF oid = <<>> THEN <<>> ELSE HexByte(Head(oid)) \o Hex(Tail(oid))

UpperHexDigits == <<"A", "B", "C", "D", "E", "F">>

IsHexDigit(c) ==
  \/ \E i \in 1..Len(HexDigits) : HexDigits[i] = c
  \/ \E i \in 1..Len(UpperHexDigits) : UpperHexDigits[i] = c

HexVal(c) ==
  IF \E i \in 1..Len(HexDigits) : HexDigits[i] = c
    THEN (CHOOSE i \in 1..Len(HexDigits) : HexDigits[i] = c) - 1
    ELSE (CHOOSE i \in 1..Len(UpperHexDigits) : UpperHexDigits[i] = c) + 9

(* primitive.ObjectIDFromHex: (ObjectID, error) *)
ObjectIDFromHex(s) ==
  IF Len(s) = 2 * ObjectIDBytes /\ \A i \in 1..Len(s) : IsHexDigit(s[i])
    THEN [val |-> [i \in 1..ObjectIDBytes |-> HexVal(s[2 * i - 1]) * 16 + HexVal(s[2 * i])],
          err |-> <<>>]
    ELSE [val |-> NilObjectID, err |-> <<"the provided hex string is not a valid ObjectID">>]

RECURSIVE TrimLeft(_, _)
TrimLeft(s, c) == IF s # <<>> /\ Head(s) = c THEN TrimLeft(Tail(s), c) ELSE s

RECURSIVE TrimRight(_, _)
TrimRight(s, c) ==
  IF s # <<>> /\ s[Len(s)] = c THEN TrimRight(SubSeq(s, 1, Len(s) - 1), c) ELSE s

(* strings.Trim(s, " ") *)
Trim(s, c) == TrimRight(TrimLeft(s, c), c)

----------------------------------------------------------------------------
(* checkmail.ValidateFormat: the address, lower-cased, must match
   local@label(.label)...: local is one or more characters, alphanumeric or
   one of the punctuation marks of LocalPunct; a label is 1..63 characters,
   alphanumeric at both ends, alphanumeric or hyphen inside.  (The
   apostrophe and the backquote, also allowed in local, are left out: no
   address of the model uses them.) *)

Letters == <<"a", "b", "c", "d", "e", "f", "g", "h", "i", "j", "k", "l", "m",
             "n", "o", "p", "q", "r", "s", "t", "u", "v", "w", "x", "y", "z">>

IsAlnum(c) == IsDigit(c) \/ \E i \in 1..Len(Letters) : Letters[i] = c

LocalPunct == {".", "!", "#", "$", "%", "&", "*", "+", "/", "=", "?", "^", "_",
               "{", "|", "}", "~", "-"}

IsLocalChar(c) == IsAlnum(c) \/ c \in LocalPunct

MaxLabelLen == 63

IsDomain(d) ==
  /\ Len(d) > 0
  /\ \A i \in 1..Len(d) : IsAlnum(d[i]) \/ d[i] \in {"-", "."}
  /\ IsAlnum(d[1]) /\ IsAlnum(d[Len(d)])
  /\ \A i \in 1..Len(d) : d[i] = "." => (IsAlnum(d[i - 1]) /\ IsAlnum(d[i + 1]))
  /\ ~ \E i \in 1..(Len(d) - MaxLabelLen) : \A j \in i..(i + MaxLabelLen) : d[j] # "."

ValidateFormat(email) ==
  LET ats == {i \in 1..Len(email) : email[i] = "@"}
      at == CHOOSE i \in ats : TRUE
  IN IF /\ Cardinality(ats) = 1
        /\ at > 1
        /\ \A i \in 1..(at - 1) : IsLocalChar(email[i])
        /\ IsDomain(SubSeq(email, at + 1, Len(email)))
       THEN <<>>
       ELSE <<"invalid format">>

(* validateEmail that accepts every email *)
validateEmail_Any(email) == <<>>

(* IncidentService.validateEmail *)
validateEmail(email) ==
  LET err == ValidateFormat(email)
  IN IF err # <<>> THEN <<"invalid email format: ">> \o err ELSE <<>>

----------------------------------------------------------------------------
(* The world a call runs in: the collection, the ObjectID counter, the
   clock, the events this call has handed to the producer, the store calls
   it has made, and the number of the store call that the driver fails
   (0: none). *)

World(st, oid, t, failAt) ==
  [store |-> st, events |-> <<>>, oid |-> oid, now |-> t, calls |-> <<>>, failAt |-> failAt,
   emitFails |-> FALSE, returned |-> <<>>]

(* the world w with a producer that reports a failure for every event, if
   emitFails *)
WithProducer(w, emitFails) == [w EXCEPT !.emitFails = emitFails]

DriverError == "driver error"

(* the next collection call of this world is the one the driver fails *)
DbFails(w) == Len(w.calls) + 1 = w.failAt

Called(w, method, op) == [w EXCEPT !.calls = Append(@, [method |-> method, op |-> op])]

Result(w, val, err) == [w |-> w, val |-> val, err |-> err]

Min(S) == CHOOSE x \in S : \A y \in S : x <= y

Max(S) == CHOOSE x \in S : \A y \in S : x >= y

(* an update document: the fields that $set replaces, the notes that $push
   appends, the watchers that $addToSet adds *)
UpdateDoc(set, push, addToSet) == [set |-> set, push |-> push, addToSet |-> addToSet]

(* $addToSet *)
AddToSet(list, x) ==
  IF \E i \in 1..Len(list) : list[i] = x THEN list ELSE Append(list, x)

RECURSIVE AddAllToSet(_, _)
AddAllToSet(list, xs) ==
  IF xs = <<>> THEN list ELSE AddAllToSet(AddToSet(list, Head(xs)), Tail(xs))

(* the document after the update *)
ApplyUpdate(doc, update) ==
  [f \in DOMAIN doc |->
     IF f \in DOMAIN update.set THEN update.set[f]
     ELSE IF f = "Notes" THEN doc.Notes \o update.push
     ELSE IF f = "WatchList" THEN AddAllToSet(doc.WatchList, update.addToSet)
     ELSE doc[f]]

(* collection.FindOneAndUpdate(filter _id = objectID, update, ReturnDocument
   After), as each repository update method wraps it *)
FindOneAndUpdate(w, method, objectID, update, failure) ==
  LET w1 == Called(w, method, "FindOneAndUpdate")
      hits == {i \in 1..Len(w.store) : w.store[i].ID = objectID}
  IN IF DbFails(w) THEN Result(w1, <<>>, <<failure, DriverError>>)
     ELSE IF hits = {} THEN Result(w1, <<>>, <<"incident not found">>)
     ELSE LET i == Min(hits)
              doc == ApplyUpdate(w.store[i], update)
          IN Result([w1 EXCEPT !.store[i] = doc], <<doc>>, <<>>)

(* Create that takes the id from a counter that is never advanced *)
RepoCreate_StaleID(w, incident) ==
  LET doc == [incident EXCEPT !.CreatedAt = w.now, !.UpdatedAt = w.now,
                              !.ID = NewObjectID(1)]
      w1 == Called([w EXCEPT !.oid = @ + 1], "Create", "InsertOne")
  IN IF DbFails(w) THEN Result(w1, <<>>, <<"failed to create incident: ", DriverError>>)
     ELSE Result([w1 EXCEPT !.store = Append(@, doc)], <<doc>>, <<>>)

(* Create over a collection with a unique index on incident_key *)
RepoCreate_UniqueKey(w, incident) ==
  LET doc == [incident EXCEPT !.CreatedAt = w.now, !.UpdatedAt = w.now,
                              !.ID = NewObjectID(w.oid)]
      w1 == Called([w EXCEPT !.oid = @ + 1], "Create", "InsertOne")
  IN IF DbFails(w) \/ \E i \in 1..Len(w.store) : w.store[i].IncidentKey = doc.IncidentKey
       THEN Result(w1, <<>>, <<"failed to create incident: ", DriverError>>)
       ELSE Result([w1 EXCEPT !.store = Append(@, doc)], <<doc>>, <<>>)

(* IncidentRepository.Create *)
RepoCreate(w, incident) ==
  LET doc == [incident EXCEPT !.CreatedAt = w.now, !.UpdatedAt = w.now,
                              !.ID = NewObjectID(w.oid)]
      w1 == Called([w EXCEPT !.oid = @ + 1], "Create", "InsertOne")
  IN IF DbFails(w) THEN Result(w1, <<>>, <<"failed to create incident: ", DriverError>>)
     ELSE Result([w1 EXCEPT !.store = Append(@, doc)], <<doc>>, <<>>)

(* UpdateStatus that writes created_at along with updated_at *)
RepoUpdateStatus_ResetCreated(w, id, status) ==
  LET objectID == ObjectIDFromHex(id)
  IN IF objectID.err # <<>>
       THEN Result(w, <<>>, <<"invalid incident ID format: ">> \o objectID.err)
       ELSE FindOneAndUpdate(w, "UpdateStatus", objectID.val,
              UpdateDoc([Status |-> status, UpdatedAt |-> w.now, CreatedAt |-> w.now],
                        <<>>, <<>>),
              "failed to update incident status: ")

(* IncidentRepository.UpdateStatus *)
RepoUpdateStatus(w, id, status) ==
  LET objectID == ObjectIDFromHex(id)
  IN IF objectID.err # <<>>
       THEN Result(w, <<>>, <<"invalid incident ID format: ">> \o objectID.err)
       ELSE FindOneAndUpdate(w, "UpdateStatus", objectID.val,
              UpdateDoc([Status |-> status, UpdatedAt |-> w.now], <<>>, <<>>),
              "failed to update incident status: ")

(* IncidentRepository.UpdateSeverity *)
RepoUpdateSeverity(w, id, severity) ==
  LET objectID == ObjectIDFromHex(id)
  IN IF objectID.err # <<>>
       THEN Result(w, <<>>, <<"invalid incident ID format: ">> \o objectID.err)
       ELSE FindOneAndUpdate(w, "UpdateSeverity", objectID.val,
              UpdateDoc([Severity |-> severity, UpdatedAt |-> w.now], <<>>, <<>>),
              "failed to update incident severity: ")

(* AddNote that writes the note list with $set in place of $push *)
RepoAddNote_SetNotes(w, incidentID, note) ==
  LET objectID == ObjectIDFromHex(incidentID)
      n == [note EXCEPT !.ID = NewObjectID(w.oid), !.CreatedAt = w.now]
  IN IF objectID.err # <<>>
       THEN Result(w, <<>>, <<"invalid incident ID format: ">> \o objectID.err)
       ELSE FindOneAndUpdate([w EXCEPT !.oid = @ + 1], "AddNote", objectID.val,
              UpdateDoc([UpdatedAt |-> w.now, Notes |-> <<n>>], <<>>, <<>>),
              "failed to add note to incident: ")

(* IncidentRepository.AddNote *)
RepoAddNote(w, incidentID, note) ==
  LET objectID == ObjectIDFromHex(incidentID)
      n == [note EXCEPT !.ID = NewObjectID(w.oid), !.CreatedAt = w.now]
  IN IF objectID.err # <<>>
       THEN Result(w, <<>>, <<"invalid incident ID format: ">> \o objectID.err)
       ELSE FindOneAndUpdate([w EXCEPT !.oid = @ + 1], "AddNote", objectID.val,
              UpdateDoc([UpdatedAt |-> w.now], <<n>>, <<>>),
              "failed to add note to incident: ")

(* AddWatcherToIncident that leaves updated_at to the store *)
RepoAddWatcherToIncident_KeepTime(w, incidentID, watcher) ==
  LET objectID == ObjectIDFromHex(incidentID)
  IN IF objectID.err # <<>>
       THEN Result(w, <<>>, <<"invalid incident ID: ">> \o objectID.err)
       ELSE FindOneAndUpdate(w, "AddWatcherToIncident", objectID.val,
              UpdateDoc(<<>>, <<>>, <<watcher>>),
              "failed to add watcher to incident: ")

(* IncidentRepository.AddWatcherToIncident *)
RepoAddWatcherToIncident(w, incidentID, watcher) ==
  LET objectID == ObjectIDFromHex(incidentID)
  IN IF objectID.err # <<>>
       THEN Result(w, <<>>, <<"invalid incident ID: ">> \o objectID.err)
       ELSE FindOneAndUpdate(w, "AddWatcherToIncident", objectID.val,
              UpdateDoc([UpdatedAt |-> w.now], <<>>, <<watcher>>),
              "failed to add watcher to incident: ")

(* GetByID whose filter matches every document when no key matches *)
RepoGetByID_AnyDocument(w, id) ==
  LET incidentKey == Atoi(id)
      w1 == Called(w, "GetByID", "FindOne")
      keyed == {i \in 1..Len(w.store) : w.store[i].IncidentKey = incidentKey.val}
      hits == IF keyed = {} THEN 1..Len(w.store) ELSE keyed
  IN IF incidentKey.err # <<>>
       THEN Result(w, <<>>, <<"invalid incident ID format: ">> \o incidentKey.err)
     ELSE IF DbFails(w) THEN Result(w1, <<>>, <<"failed to get incident: ", DriverError>>)
     ELSE IF hits = {} THEN Result(w1, <<>>, <<"incident not found">>)
     ELSE Result(w1, <<w.store[Min(hits)]>>, <<>>)

(* IncidentRepository.GetByID *)
RepoGetByID(w, id) ==
  LET incidentKey == Atoi(id)
      w1 == Called(w, "GetByID", "FindOne")
      hits == {i \in 1..Len(w.store) : w.store[i].IncidentKey = incidentKey.val}
  IN IF incidentKey.err # <<>>
       THEN Result(w, <<>>, <<"invalid incident ID format: ">> \o incidentKey.err)
     ELSE IF DbFails(w) THEN Result(w1, <<>>, <<"failed to get incident: ", DriverError>>)
     ELSE IF hits = {} THEN Result(w1, <<>>, <<"incident not found">>)
     ELSE Result(w1, <<w.store[Min(hits)]>>, <<>>)

(* the orders in which Find may return the documents of st under the sort
   created_at descending, as sequences of positions in st; documents with
   equal created_at come in any order, and updated_at plays no part *)
SortedOrders_ByUpdatedAt(st) ==
  {o \in [1..Len(st) -> 1..Len(st)] :
     /\ \A i, j \in 1..Len(st) : i # j => o[i] # o[j]
     /\ \A i, j \in 1..Len(st) : i < j => st[o[i]].UpdatedAt >= st[o[j]].UpdatedAt}

SortedOrders(st) ==
  {o \in [1..Len(st) -> 1..Len(st)] :
     /\ \A i, j \in 1..Len(st) : i # j => o[i] # o[j]
     /\ \A i, j \in 1..Len(st) : i < j => st[o[i]].CreatedAt >= st[o[j]].CreatedAt}

(* IncidentRepository.GetAllIncidents: collection.Find with the sort, and
   cursor.All; order is the order in which the store returns the documents *)
RepoGetAllIncidents(w, order) ==
  LET w1 == Called(w, "GetAllIncidents", "Find")
      w2 == Called(w1, "GetAllIncidents", "All")
  IN IF DbFails(w) THEN Result(w1, <<>>, <<"failed to get incidents: ", DriverError>>)
     ELSE IF DbFails(w1) THEN Result(w2, <<>>, <<"failed to decode incidents: ", DriverError>>)
     ELSE Result(w2, [i \in 1..Len(w.store) |-> w.store[order[i]]], <<>>)

(* GetNextIncidentKey that returns the highest key itself *)
GetNextIncidentKey_NoIncrement(w) ==
  LET w1 == Called(w, "GetNextIncidentKey", "FindOne")
  IN IF DbFails(w) THEN Result(w1, 0, <<"failed to get max incident key: ", DriverError>>)
     ELSE IF w.store = <<>> THEN Result(w1, 1, <<>>)
     ELSE Result(w1, Max({w.store[i].IncidentKey : i \in 1..Len(w.store)}), <<>>)

(* IncidentRepository.GetNextIncidentKey: (int, error) *)
GetNextIncidentKey(w) ==
  LET w1 == Called(w, "GetNextIncidentKey", "FindOne")
  IN IF DbFails(w) THEN Result(w1, 0, <<"failed to get max incident key: ", DriverError>>)
     ELSE IF w.store = <<>> THEN Result(w1, 1, <<>>)
     ELSE Result(w1, Max({w.store[i].IncidentKey : i \in 1..Len(w.store)}) + 1, <<>>)

----------------------------------------------------------------------------
(* Events handed to Producer.ProduceMessage *)

IncidentCreated(eventKey, id, title, severity) ==
  [EventType |-> "incident.created", EventKey |-> eventKey, Id |-> id,
   Title |-> title, Severity |-> severity]

IncidentStatusUpdated(eventKey, id, title, status) ==
  [EventType |-> "incident.status.updated", EventKey |-> eventKey, Id |-> id,
   Title |-> title, Status |-> status]

IncidentSeverityUpdated(eventKey, id, title, severity) ==
  [EventType |-> "incident.severity.updated", EventKey |-> eventKey, Id |-> id,
   Title |-> title, Severity |-> severity]

IncidentNoteAdded(eventKey, id, title, content) ==
  [EventType |-> "incident.notes.added", EventKey |-> eventKey, Id |-> id,
   Title |-> title, Content |-> content]

(* the event key of the next event: primitive.NewObjectID().Hex() *)
EventKey(w) == Hex(NewObjectID(w.oid))

ProducerError == "producer error"

(* s.producer.ProduceMessage(event), the event built with EventKey(w).  The
   method of this repository returns nil; the error that its signature
   allows is returned when the producer of the world fails (w.emitFails).
   The value returned is kept in w.returned, which no caller reads: each
   call site is an expression statement. *)
ProduceMessage(w, event) ==
  [w EXCEPT !.events = Append(@, event), !.oid = @ + 1,
            !.returned = Append(@, IF w.emitFails THEN <<ProducerError>> ELSE <<>>)]

----------------------------------------------------------------------------
(* IncidentService *)

(* the table with closed as a terminal status *)
allowedTransitions_ClosedTerminal ==
  [s \in {Open, InProgress, Resolved} |->
     CASE s = Open -> <<InProgress, Resolved, Closed>>
       [] s = InProgress -> <<Open, Resolved, Closed>>
       [] s = Resolved -> <<Open, InProgress, Closed>>]

(* the table with an incident allowed to stay closed *)
allowedTransitions_StayClosed ==
  [s \in {Open, InProgress, Resolved, Closed} |->
     CASE s = Open -> <<InProgress, Resolved, Closed>>
       [] s = InProgress -> <<Open, Resolved, Closed>>
       [] s = Resolved -> <<Open, InProgress, Closed>>
       [] s = Closed -> <<Open, Closed>>]

(* IncidentService.validateStatusTransition *)
allowedTransitions ==
  [s \in {Open, InProgress, Resolved, Closed} |->
     CASE s = Open -> <<InProgress, Resolved, Closed>>
       [] s = InProgress -> <<Open, Resolved, Closed>>
       [] s = Resolved -> <<Open, InProgress, Closed>>
       [] s = Closed -> <<Open>>]

validateStatusTransition(currentStatus, newStatus) ==
  IF /\ currentStatus \in DOMAIN allowedTransitions
     /\ \E i \in 1..Len(allowedTransitions[currentStatus]) :
          allowedTransitions[currentStatus][i] = newStatus
    THEN <<>>
    ELSE <<"cannot transition from ", currentStatus, " to ", newStatus>>

(* AddWatcherToIncident without the format check of the email *)
AddWatcherToIncident_Unchecked(w, incidentID, watcher) ==
  LET g == RepoGetByID(w, incidentID)
      u == RepoAddWatcherToIncident(g.w, incidentID, watcher)
  IN IF g.err # <<>> THEN Result(g.w, <<>>, <<"incident not found: ">> \o g.err)
     ELSE IF u.err # <<>>
       THEN Result(u.w, <<>>, <<"failed to add watcher to incident: ">> \o u.err)
     ELSE Result(u.w, u.val, <<>>)

(* IncidentService.AddWatcherToIncident *)
AddWatcherToIncident(w, incidentID, watcher) ==
  LET g == RepoGetByID(w, incidentID)
      conditionErr == validateEmail(watcher.Email)
      u == RepoAddWatcherToIncident(g.w, incidentID, watcher)
  IN IF g.err # <<>> THEN Result(g.w, <<>>, <<"incident not found: ">> \o g.err)
     ELSE IF conditionErr # <<>> THEN Result(g.w, <<>>, <<"invalid email: ">> \o conditionErr)
     ELSE IF u.err # <<>>
       THEN Result(u.w, <<>>, <<"failed to add watcher to incident: ">> \o u.err)
     ELSE Result(u.w, u.val, <<>>)

(* a slice is nil, <<>>, or holds its elements, <<elements>> *)
NilSlice == <<>>
Slice(elements) == <<elements>>
Elements(slice) == IF slice = NilSlice THEN <<>> ELSE slice[1]

(* CreateIncident that takes the notes of the request as they are *)
CreateIncidentNotes_Alias(w, req) == req.Notes

(* IncidentService.CreateIncident, the notes of the incident: every note of
   the request rebuilt with a new id and the time of the call, an empty
   slice for a request whose notes are nil *)
CreateIncidentNotes(w, req) ==
  IF req.Notes # NilSlice
    THEN Slice([i \in 1..Len(req.Notes[1]) |->
                 [ID |-> NewObjectID(w.oid + i - 1), Content |-> req.Notes[1][i].Content,
                  AuthorEmail |-> req.Notes[1][i].AuthorEmail, CreatedAt |-> w.now,
                  Type |-> ""]])
    ELSE Slice(<<>>)

(* CreateIncident that takes an author email of spaces for an author *)
CreateIncidentPrepare_NoTrim(w, req) ==
  LET notes == CreateIncidentNotes(w, req)
      w1 == [w EXCEPT !.oid = @ + Len(Elements(notes))]
      hasAuthor == req.AuthorEmail # <<>>
      conditionErr == IF hasAuthor THEN validateEmail(req.AuthorEmail) ELSE <<>>
      watcherList == IF hasAuthor THEN <<[Email |-> req.AuthorEmail]>> ELSE <<>>
      k == GetNextIncidentKey(w1)
      incident == [ID |-> NilObjectID, IncidentKey |-> k.val, Title |-> req.Title,
                   Severity |-> req.Severity, Status |-> Open, CreatedAt |-> 0,
                   UpdatedAt |-> 0, Notes |-> Elements(notes),
                   WatchList |-> watcherList,
                   CreatedBy |-> req.AuthorEmail, Description |-> req.Description,
                   Assignee |-> req.Assignee]
  IN IF ~ SeverityIsValid(req.Severity)
       THEN Result(w, <<>>, <<"invalid severity: ", req.Severity>>)
     ELSE IF conditionErr # <<>> THEN Result(w1, <<>>, <<"invalid email: ">> \o conditionErr)
     ELSE IF k.err # <<>>
       THEN Result(k.w, <<>>, <<"failed to generate incident key: ">> \o k.err)
     ELSE Result(k.w, <<incident>>, <<>>)

(* IncidentService.CreateIncident up to the read of the next key: the
   incident to insert *)
CreateIncidentPrepare(w, req) ==
  LET notes == CreateIncidentNotes(w, req)
      w1 == [w EXCEPT !.oid = @ + Len(Elements(notes))]
      hasAuthor == Trim(req.AuthorEmail, " ") # <<>>
      conditionErr == IF hasAuthor THEN validateEmail(req.AuthorEmail) ELSE <<>>
      watcherList == IF hasAuthor THEN <<[Email |-> req.AuthorEmail]>> ELSE <<>>
      k == GetNextIncidentKey(w1)
      incident == [ID |-> NilObjectID, IncidentKey |-> k.val, Title |-> req.Title,
                   Severity |-> req.Severity, Status |-> Open, CreatedAt |-> 0,
                   UpdatedAt |-> 0, Notes |-> Elements(notes),
                   WatchList |-> watcherList,
                   CreatedBy |-> req.AuthorEmail, Description |-> req.Description,
                   Assignee |-> req.Assignee]
  IN IF ~ SeverityIsValid(req.Severity)
       THEN Result(w, <<>>, <<"invalid severity: ", req.Severity>>)
     ELSE IF conditionErr # <<>> THEN Result(w1, <<>>, <<"invalid email: ">> \o conditionErr)
     ELSE IF k.err # <<>>
       THEN Result(k.w, <<>>, <<"failed to generate incident key: ">> \o k.err)
     ELSE Result(k.w, <<incident>>, <<>>)

(* CreateIncident that hands the error of the producer to the caller *)
CreateIncidentPersist_SurfaceEmit(w, incident) ==
  LET c == RepoCreate(w, incident)
      createdIncident == c.val[1]
      e == ProduceMessage(c.w,
             IncidentCreated(EventKey(c.w), Hex(createdIncident.ID),
                             createdIncident.Title, createdIncident.Severity))
      err == e.returned[Len(e.returned)]
  IN IF c.err # <<>> THEN Result(c.w, <<>>, <<"failed to create incident: ">> \o c.err)
     ELSE IF err # <<>> THEN Result(e, <<>>, <<"failed to emit event: ">> \o err)
     ELSE Result(e, c.val, <<>>)

(* IncidentService.CreateIncident from the insert on *)
CreateIncidentPersist(w, incident) ==
  LET c == RepoCreate(w, incident)
      createdIncident == c.val[1]
  IN IF c.err # <<>> THEN Result(c.w, <<>>, <<"failed to create incident: ">> \o c.err)
     ELSE Result(ProduceMessage(c.w,
                   IncidentCreated(EventKey(c.w), Hex(createdIncident.ID),
                                   createdIncident.Title, createdIncident.Severity)),
                 c.val, <<>>)

(* IncidentService.CreateIncident *)
CreateIncident(w, req) ==
  LET p == CreateIncidentPrepare(w, req)
  IN IF p.err # <<>> THEN p ELSE CreateIncidentPersist(p.w, p.val[1])

(* UpdateIncidentStatus that reports success when only the chained watcher
   add failed *)
UpdateIncidentStatus_Swallow(w, id, req) ==
  LET g == RepoGetByID(w, id)
      existingIncident == g.val[1]
      transitionErr == validateStatusTransition(existingIncident.Status, req.Status)
      u == RepoUpdateStatus(g.w, Hex(existingIncident.ID), req.Status)
      updatedIncident == u.val[1]
      a == IF Trim(req.AuthorEmail, " ") # <<>>
             THEN AddWatcherToIncident(u.w, id, [Email |-> req.AuthorEmail])
             ELSE Result(u.w, <<>>, <<>>)
  IN IF ~ StatusIsValid(req.Status) THEN Result(w, <<>>, <<"invalid status: ", req.Status>>)
     ELSE IF g.err # <<>> THEN Result(g.w, <<>>, <<"incident not found: ">> \o g.err)
     ELSE IF transitionErr # <<>>
       THEN Result(g.w, <<>>, <<"invalid status transition: ">> \o transitionErr)
     ELSE IF u.err # <<>>
       THEN Result(u.w, <<>>, <<"failed to update incident status: ">> \o u.err)
     ELSE Result(ProduceMessage(a.w,
                   IncidentStatusUpdated(EventKey(a.w), Hex(updatedIncident.ID),
                                         updatedIncident.Title, updatedIncident.Status)),
                 u.val, <<>>)

(* IncidentService.UpdateIncidentStatus *)
UpdateIncidentStatus(w, id, req) ==
  LET g == RepoGetByID(w, id)
      existingIncident == g.val[1]
      transitionErr == validateStatusTransition(existingIncident.Status, req.Status)
      u == RepoUpdateStatus(g.w, Hex(existingIncident.ID), req.Status)
      updatedIncident == u.val[1]
      a == IF Trim(req.AuthorEmail, " ") # <<>>
             THEN AddWatcherToIncident(u.w, id, [Email |-> req.AuthorEmail])
             ELSE Result(u.w, <<>>, <<>>)
  IN IF ~ StatusIsValid(req.Status) THEN Result(w, <<>>, <<"invalid status: ", req.Status>>)
     ELSE IF g.err # <<>> THEN Result(g.w, <<>>, <<"incident not found: ">> \o g.err)
     ELSE IF transitionErr # <<>>
       THEN Result(g.w, <<>>, <<"invalid status transition: ">> \o transitionErr)
     ELSE IF u.err # <<>>
       THEN Result(u.w, <<>>, <<"failed to update incident status: ">> \o u.err)
     ELSE IF a.err # <<>>
       THEN Result(a.w, <<>>,
                   <<"status updated but failed to add watcher to incident: ">> \o a.err)
     ELSE Result(ProduceMessage(a.w,
                   IncidentStatusUpdated(EventKey(a.w), Hex(updatedIncident.ID),
                                         updatedIncident.Title, updatedIncident.Status)),
                 u.val, <<>>)

(* IncidentService.UpdateIncidentStatus up to the check of the transition:
   the incident that was read *)
UpdateIncidentStatusCheck(w, id, req) ==
  LET g == RepoGetByID(w, id)
      existingIncident == g.val[1]
      transitionErr == validateStatusTransition(existingIncident.Status, req.Status)
  IN IF ~ StatusIsValid(req.Status) THEN Result(w, <<>>, <<"invalid status: ", req.Status>>)
     ELSE IF g.err # <<>> THEN Result(g.w, <<>>, <<"incident not found: ">> \o g.err)
     ELSE IF transitionErr # <<>>
       THEN Result(g.w, <<>>, <<"invalid status transition: ">> \o transitionErr)
     ELSE g

(* IncidentService.UpdateIncidentStatus from repo.UpdateStatus on, for the
   incident that was read *)
UpdateIncidentStatusPersist(w, id, req, existingIncident) ==
  LET u == RepoUpdateStatus(w, Hex(existingIncident.ID), req.Status)
      updatedIncident == u.val[1]
      a == IF Trim(req.AuthorEmail, " ") # <<>>
             THEN AddWatcherToIncident(u.w, id, [Email |-> req.AuthorEmail])
             ELSE Result(u.w, <<>>, <<>>)
  IN IF u.err # <<>>
       THEN Result(u.w, <<>>, <<"failed to update incident status: ">> \o u.err)
     ELSE IF a.err # <<>>
       THEN Result(a.w, <<>>,
                   <<"status updated but failed to add watcher to incident: ">> \o a.err)
     ELSE Result(ProduceMessage(a.w,
                   IncidentStatusUpdated(EventKey(a.w), Hex(updatedIncident.ID),
                                         updatedIncident.Title, updatedIncident.Status)),
                 u.val, <<>>)

(* IncidentService.UpdateIncidentSeverity *)
UpdateIncidentSeverity(w, id, req) ==
  LET g == RepoGetByID(w, id)
      u == RepoUpdateSeverity(g.w, id, req.Severity)
      updatedIncident == u.val[1]
      a == IF Trim(req.AuthorEmail, " ") # <<>>
             THEN AddWatcherToIncident(u.w, id, [Email |-> req.AuthorEmail])
             ELSE Result(u.w, <<>>, <<>>)
  IN IF ~ SeverityIsValid(req.Severity)
       THEN Result(w, <<>>, <<"invalid severity: ", req.Severity>>)
     ELSE IF g.err # <<>> THEN Result(g.w, <<>>, <<"incident not found: ">> \o g.err)
     ELSE IF u.err # <<>>
       THEN Result(u.w, <<>>, <<"failed to update incident severity: ">> \o u.err)
     ELSE IF a.err # <<>>
       THEN Result(a.w, <<>>,
                   <<"updated incident severity but failed to add watcher to incident: ">>
                     \o a.err)
     ELSE Result(ProduceMessage(a.w,
                   IncidentSeverityUpdated(EventKey(a.w), Hex(updatedIncident.ID),
                                           updatedIncident.Title, updatedIncident.Severity)),
                 u.val, <<>>)

(* AddNoteToIncident that hands the event to the producer before the note
   is written *)
AddNoteToIncident_EmitFirst(w, incidentID, req) ==
  LET g == RepoGetByID(w, incidentID)
      existingIncident == g.val[1]
      note == [ID |-> NilObjectID, Content |-> req.Content, AuthorEmail |-> req.AuthorEmail,
               CreatedAt |-> 0, Type |-> req.Type]
      e == ProduceMessage(g.w,
             IncidentNoteAdded(EventKey(g.w), Hex(existingIncident.ID),
                               existingIncident.Title, note.Content))
      u == RepoAddNote(e, Hex(existingIncident.ID), note)
  IN IF g.err # <<>> THEN Result(g.w, <<>>, <<"incident not found: ">> \o g.err)
     ELSE IF u.err # <<>>
       THEN Result(u.w, <<>>, <<"failed to add note to incident: ">> \o u.err)
     ELSE Result(u.w, u.val, <<>>)

(* IncidentService.AddNoteToIncident *)
AddNoteToIncident(w, incidentID, req) ==
  LET g == RepoGetByID(w, incidentID)
      existingIncident == g.val[1]
      note == [ID |-> NilObjectID, Content |-> req.Content, AuthorEmail |-> req.AuthorEmail,
               CreatedAt |-> 0, Type |-> req.Type]
      u == RepoAddNote(g.w, Hex(existingIncident.ID), note)
      updatedIncident == u.val[1]
  IN IF g.err # <<>> THEN Result(g.w, <<>>, <<"incident not found: ">> \o g.err)
     ELSE IF u.err # <<>>
       THEN Result(u.w, <<>>, <<"failed to add note to incident: ">> \o u.err)
     ELSE Result(ProduceMessage(u.w,
                   IncidentNoteAdded(EventKey(u.w), Hex(updatedIncident.ID),
                                     updatedIncident.Title, note.Content)),
                 u.val, <<>>)

(* IncidentService.AddNoteToIncident up to the check that the incident
   exists: the incident that was read *)
AddNoteToIncidentRead(w, incidentID, req) ==
  LET g == RepoGetByID(w, incidentID)
  IN IF g.err # <<>> THEN Result(g.w, <<>>, <<"incident not found: ">> \o g.err) ELSE g

(* AddNoteToIncident that writes back the notes of the incident it read,
   followed by the new note *)
AddNoteToIncidentPersist_WriteBack(w, incidentID, req, existingIncident) ==
  LET n == [ID |-> NewObjectID(w.oid), Content |-> req.Content,
            AuthorEmail |-> req.AuthorEmail, CreatedAt |-> w.now, Type |-> req.Type]
      u == FindOneAndUpdate([w EXCEPT !.oid = @ + 1], "AddNote", existingIncident.ID,
             UpdateDoc([UpdatedAt |-> w.now, Notes |-> Append(existingIncident.Notes, n)],
                       <<>>, <<>>),
             "failed to add note to incident: ")
      updatedIncident == u.val[1]
  IN IF u.err # <<>>
       THEN Result(u.w, <<>>, <<"failed to add note to incident: ">> \o u.err)
     ELSE Result(ProduceMessage(u.w,
                   IncidentNoteAdded(EventKey(u.w), Hex(updatedIncident.ID),
                                     updatedIncident.Title, req.Content)),
                 u.val, <<>>)

(* IncidentService.AddNoteToIncident from repo.AddNote on, for the incident
   that was read *)
AddNoteToIncidentPersist(w, incidentID, req, existingIncident) ==
  LET note == [ID |-> NilObjectID, Content |-> req.Content, AuthorEmail |-> req.AuthorEmail,
               CreatedAt |-> 0, Type |-> req.Type]
      u == RepoAddNote(w, Hex(existingIncident.ID), note)
      updatedIncident == u.val[1]
  IN IF u.err # <<>>
       THEN Result(u.w, <<>>, <<"failed to add note to incident: ">> \o u.err)
     ELSE Result(ProduceMessage(u.w,
                   IncidentNoteAdded(EventKey(u.w), Hex(updatedIncident.ID),
                                     updatedIncident.Title, note.Content)),
                 u.val, <<>>)

(* IncidentService.UpdateIncidentSeverity up to the check that the incident
   exists: the incident that was read *)
UpdateIncidentSeverityCheck(w, id, req) ==
  LET g == RepoGetByID(w, id)
  IN IF ~ SeverityIsValid(req.Severity)
       THEN Result(w, <<>>, <<"invalid severity: ", req.Severity>>)
     ELSE IF g.err # <<>> THEN Result(g.w, <<>>, <<"incident not found: ">> \o g.err)
     ELSE g

(* IncidentService.UpdateIncidentSeverity from repo.UpdateSeverity on *)
UpdateIncidentSeverityPersist(w, id, req) ==
  LET u == RepoUpdateSeverity(w, id, req.Severity)
      updatedIncident == u.val[1]
      a == IF Trim(req.AuthorEmail, " ") # <<>>
             THEN AddWatcherToIncident(u.w, id, [Email |-> req.AuthorEmail])
             ELSE Result(u.w, <<>>, <<>>)
  IN IF u.err # <<>>
       THEN Result(u.w, <<>>, <<"failed to update incident severity: ">> \o u.err)
     ELSE IF a.err # <<>>
       THEN Result(a.w, <<>>,
                   <<"updated incident severity but failed to add watcher to incident: ">>
                     \o a.err)
     ELSE Result(ProduceMessage(a.w,
                   IncidentSeverityUpdated(EventKey(a.w), Hex(updatedIncident.ID),
                                           updatedIncident.Title, updatedIncident.Severity)),
                 u.val, <<>>)

(* GetByID that stamps the incident it read with the time of the read *)
GetByID_Touch(w, id) ==
  LET g == RepoGetByID(w, id)
      hits == {i \in 1..Len(w.store) : w.store[i].IncidentKey = Atoi(id).val}
  IN IF g.err # <<>> THEN Result(g.w, <<>>, <<"failed to get incident: ">> \o g.err)
     ELSE Result([g.w EXCEPT !.store[Min(hits)].UpdatedAt = w.now], g.val, <<>>)

(* IncidentService.GetByID *)
GetByID(w, id) ==
  LET g == RepoGetByID(w, id)
  IN IF g.err # <<>> THEN Result(g.w, <<>>, <<"failed to get incident: ">> \o g.err)
     ELSE g

(* IncidentService.GetAllIncidents *)
GetAllIncidents(w, order) ==
  LET g == RepoGetAllIncidents(w, order)
  IN IF g.err # <<>> THEN Result(g.w, <<>>, <<"failed to get incidents: ">> \o g.err)
     ELSE g

----------------------------------------------------------------------------
(* IncidentHandler: the request path from the parsed request to the status
   code of the response *)

StatusOK == 200
StatusCreated == 201
StatusBadRequest == 400
StatusNotFound == 404
StatusInternalServerError == 500

(* err.Error(): the message of a wrapped error is the messages of the chain
   joined *)
RECURSIVE ErrorString(_)
ErrorString(err) == IF err = <<>> THEN "" ELSE Head(err) \o ErrorString(Tail(err))

(* c.Status(code).JSON(...): the response to the result r of the service *)
Response(r, code) == [w |-> r.w, val |-> r.val, err |-> r.err, code |-> code]

(* the tail of a handler that answers 404 to the error "incident not found":
   the response to the result r of the service, with the codes of a failure
   and of a success *)
ServiceResponse(r, notFound, failure, success) ==
  IF r.err # <<>>
    THEN IF ErrorString(r.err) \in notFound
           THEN Response(r, StatusNotFound)
           ELSE Response(r, failure)
    ELSE Response(r, success)

(* IncidentHandler.CreateIncident *)
HandlerCreateIncident(w, req) ==
  IF req.Title = ""
    THEN Response(Result(w, <<>>, <<"Title is required">>), StatusBadRequest)
  ELSE IF req.Severity = ""
    THEN Response(Result(w, <<>>, <<"Severity is required">>), StatusBadRequest)
  ELSE ServiceResponse(CreateIncident(w, req), {},
                       StatusInternalServerError, StatusCreated)

(* IncidentHandler.GetAllIncidents *)
HandlerGetAllIncidents(w, order) ==
  ServiceResponse(GetAllIncidents(w, order), {}, StatusInternalServerError, StatusOK)

(* IncidentHandler.GetIncidentByID *)
HandlerGetIncidentByID(w, id) ==
  IF id = <<>>
    THEN Response(Result(w, <<>>, <<"Incident ID is required">>), StatusBadRequest)
  ELSE ServiceResponse(GetByID(w, id), {"incident not found", "no documents found"},
                       StatusInternalServerError, StatusOK)

(* IncidentHandler.UpdateIncidentStatus *)
HandlerUpdateIncidentStatus(w, id, req) ==
  IF id = <<>>
    THEN Response(Result(w, <<>>, <<"Incident ID is required">>), StatusBadRequest)
  ELSE IF req.Status = ""
    THEN Response(Result(w, <<>>, <<"Status is required">>), StatusBadRequest)
  ELSE ServiceResponse(UpdateIncidentStatus(w, id, req), {"incident not found"},
                       StatusBadRequest, StatusOK)

(* IncidentHandler.UpdateIncidentSeverity *)
HandlerUpdateIncidentSeverity(w, id, req) ==
  IF id = <<>>
    THEN Response(Result(w, <<>>, <<"Incident ID is required">>), StatusBadRequest)
  ELSE IF req.Severity = ""
    THEN Response(Result(w, <<>>, <<"Severity is required">>), StatusBadRequest)
  ELSE ServiceResponse(UpdateIncidentSeverity(w, id, req), {"incident not found"},
                       StatusBadRequest, StatusOK)

(* IncidentHandler.AddNoteToIncident *)
HandlerAddNoteToIncident(w, id, req) ==
  IF id = <<>>
    THEN Response(Result(w, <<>>, <<"Incident ID is required">>), StatusBadRequest)
  ELSE IF req.Content = ""
    THEN Response(Result(w, <<>>, <<"Note content is required">>), StatusBadRequest)
  ELSE ServiceResponse(AddNoteToIncident(w, id, req), {"incident not found"},
                       StatusInternalServerError, StatusCreated)

(* IncidentHandler.AddWatcherToIncident *)
HandlerAddWatcherToIncident(w, id, req) ==
  IF id = <<>>
    THEN Response(Result(w, <<>>, <<"Incident ID is required">>), StatusBadRequest)
  ELSE ServiceResponse(AddWatcherToIncident(w, id, req), {"incident not found"},
                       StatusInternalServerError, StatusCreated)

----------------------------------------------------------------------------
(* Requests *)

EmailEmpty == <<>>
EmailBlank == <<" ">>
EmailA == <<"a", "@", "b">>
EmailB == <<"c", "@", "d", ".", "e">>
EmailBad == <<"a", "b">>

Emails == {EmailEmpty, EmailBlank, EmailA, EmailB, EmailBad}

SeverityUpdates == {Low, Medium, High, Critical, "urgent", ""}

StatusInputs == {Open, InProgress, Resolved, Closed, "reopened", ""}

(* a string of n characters c *)
RECURSIVE Repeat(_, _)
Repeat(c, n) ==
  IF n = 0 THEN ""
  ELSE IF n % 2 = 0 THEN LET half == Repeat(c, n \div 2) IN half \o half
  ELSE c \o Repeat(c, n - 1)

(* the bounds of the validate tags of models.CreateIncidentRequest.Title and
   models.AddNoteRequest.Content *)
TitleMin == 3
TitleMax == 255
ContentMin == 1
ContentMax == 1000

(* models.NoteType *)
NoteTypes == {"update", "investigation", "resolution", "communication"}

(* a note of a creation request, carrying an id, a time and a type of the
   client's choosing *)
NoteInput ==
  [ID |-> NewObjectID(255), Content |-> "timeout", AuthorEmail |-> EmailA,
   CreatedAt |-> 0, Type |-> "update"]

(* a second note of a creation request, of another author *)
NoteInput2 ==
  [ID |-> NewObjectID(254), Content |-> "restarted", AuthorEmail |-> EmailB,
   CreatedAt |-> 0, Type |-> "question"]

CreateRequest(severity, notes, authorEmail) ==
  [Title |-> "Database Connection Failed", Severity |-> severity, Description |-> "d",
   Notes |-> notes, AuthorEmail |-> authorEmail, Assignee |-> "bob"]

(* the request req with another title *)
Titled(req, title) == [req EXCEPT !.Title = title]

(* creation requests: the request of the test and a request without author
   email whose title is at the lower bound of the validate tag *)
PlainCreateRequests ==
  {CreateRequest(Critical, Slice(<<NoteInput>>), EmailA),
   Titled(CreateRequest(Low, NilSlice, EmailEmpty), Repeat("t", TitleMin))}

(* requests without author email whose titles are at the upper bound and
   next to the bounds, requests with a missing title, a missing or unknown
   severity, a blank and a malformed author email, and requests with two
   notes and with an empty list of notes; the other requests without notes
   leave the notes out *)
EdgeCreateRequests ==
  {Titled(CreateRequest(Low, NilSlice, EmailEmpty), Repeat("t", TitleMin - 1)),
   Titled(CreateRequest(Medium, NilSlice, EmailEmpty), Repeat("t", TitleMax)),
   Titled(CreateRequest(Medium, NilSlice, EmailEmpty), Repeat("t", TitleMax + 1)),
   Titled(CreateRequest(Low, NilSlice, EmailEmpty), ""),
   CreateRequest("", NilSlice, EmailEmpty),
   CreateRequest(High, NilSlice, EmailBlank),
   CreateRequest(Medium, NilSlice, EmailBad),
   CreateRequest("urgent", Slice(<<NoteInput>>), EmailB),
   CreateRequest(High, Slice(<<NoteInput2, NoteInput>>), EmailEmpty),
   CreateRequest(Medium, Slice(<<>>), EmailEmpty)}

(* the first incident is created from any of the requests, the later ones
   from the plain requests *)
CreateRequests ==
  IF store = <<>> THEN PlainCreateRequests \cup EdgeCreateRequests ELSE PlainCreateRequests

(* the decimal form of key 1 padded to the length of a hex id *)
PaddedKey == [i \in 1..(2 * ObjectIDBytes - 1) |-> "0"] \o <<"1">>

(* path identifiers: the decimal keys 1 and 2 *)
Key1 == <<"1">>
Key2 == <<"2">>

(* path identifiers that are no decimal key: the hex form of the oldest
   stored id, a padded key *)
OtherIds == {Hex(store[i].ID) : i \in 1..Len(store) \cap {1}} \cup {PaddedKey}

(* at most one incident is stored, and it was created from a plain request *)
Few ==
  /\ Len(store) <= 1
  /\ \A i \in 1..Len(store) :
       \E r \in PlainCreateRequests : r.Title = store[i].Title /\ r.Severity = store[i].Severity

(* the calls: while at most one incident is stored, on key 1 every status
   without and with a valid author email and fewer requests on the other
   identifiers; afterwards the plain requests *)
StatusCalls ==
  ({Key1, Key2} \X {InProgress, Resolved} \X {EmailEmpty})
    \cup IF Few
            THEN ({Key1} \X StatusInputs \X {EmailEmpty})
                   \cup ({Key1} \X {Open, InProgress, Resolved, Closed} \X {EmailA})
                   \cup ({Key1} \X {InProgress, "reopened"} \X {EmailBad})
                   \cup (OtherIds \X {InProgress} \X {EmailEmpty, EmailA})
            ELSE {}

SeverityCalls ==
  ({Key1} \X {High} \X {EmailEmpty})
    \cup IF Few
            THEN ({Key1} \X SeverityUpdates \X {EmailEmpty})
                   \cup ({Key1} \X {Low, Critical} \X {EmailB, EmailBad})
                   \cup (({Key2} \cup OtherIds) \X {High} \X {EmailEmpty})
            ELSE {}

(* notes: contents at and next to the bounds of the validate tag, a type
   that is no NoteType *)
NoteRequests ==
  {[Content |-> Repeat("n", ContentMin), AuthorEmail |-> EmailA, Type |-> "update"],
   [Content |-> Repeat("n", ContentMax), AuthorEmail |-> EmailB, Type |-> "resolution"],
   [Content |-> Repeat("n", ContentMax + 1), AuthorEmail |-> EmailA, Type |-> "update"],
   [Content |-> "", AuthorEmail |-> EmailA, Type |-> "update"],
   [Content |-> "n", AuthorEmail |-> EmailA, Type |-> "question"]}

NoteCalls ==
  ({Key1, Key2} \X {[Content |-> "n", AuthorEmail |-> EmailA, Type |-> "update"]})
    \cup IF Few
            THEN ({Key1} \X NoteRequests)
                   \cup (OtherIds \X
                          {[Content |-> "n", AuthorEmail |-> EmailA, Type |-> "update"]})
            ELSE {}

GetCalls == {Key1, Key2} \cup IF Few THEN OtherIds ELSE {}

WatcherCalls ==
  ({Key1} \X {EmailA})
    \cup IF Few THEN ({Key1} \X Emails) \cup (({Key2} \cup OtherIds) \X {EmailA}) ELSE {}

Procs == {1, 2}

(* a request in flight in SpecConcurrent: where its call of CreateIncident
   stands, the incident it is about to insert, the number of incidents that
   were stored when it read the next key, whether the driver failed one of
   its store calls, and what it returned *)
IdleFrame == [pc |-> "idle", id |-> <<>>, req |-> <<>>, incident |-> <<>>, seen |-> 0,
              ret |-> <<>>, err |-> <<>>, emitted |-> <<>>, failed |-> FALSE]

NoCall == [op |-> "none", id |-> <<>>, req |-> <<>>, failAt |-> 0, pre |-> <<>>,
           preOid |-> 0, ret |-> <<>>, err |-> <<>>, calls |-> <<>>, emitted |-> <<>>,
           emitFails |-> FALSE, code |-> 0]

Init ==
  /\ store = <<>>
  /\ now = 1
  /\ nextOid = 1
  /\ last = NoCall
  /\ procs = [p \in Procs |-> IdleFrame]

(* the state after a call of the service that ran alone from start to end,
   with result r *)
Return(op, id, req, failAt, r) ==
  /\ r.w.oid - 1 <= MaxObjectIDs
  /\ failAt <= Len(r.w.calls)
  /\ r.w.emitFails => r.w.returned # <<>>
  /\ store' = r.w.store
  /\ nextOid' = r.w.oid
  /\ last' = [op |-> op, id |-> id, req |-> req, failAt |-> failAt, pre |-> store,
              preOid |-> nextOid, ret |-> r.val, err |-> r.err, calls |-> r.w.calls,
              emitted |-> r.w.events, emitFails |-> r.w.emitFails, code |-> r.code]
  /\ UNCHANGED <<now, procs>>

(* the most store calls that one call of a handler makes *)
MaxStoreCalls == 4

(* the store calls that the driver may fail: any while at most one incident
   is stored, none afterwards *)
Faults == IF Few THEN 0..MaxStoreCalls ELSE {0}

(* what the producer may do in a call in which the driver fails store call
   failAt: events are handed to it only by calls without a failed store
   call *)
ProducerOutcomes(failAt) == IF failAt = 0 THEN BOOLEAN ELSE {FALSE}

(* In each call the driver fails at most one of the store calls that the
   call makes (failAt, 0: none), and the producer reports every event as
   sent or every event as failed (emitFails). *)

ReqCreateIncident ==
  /\ last = NoCall
  /\ \E req \in CreateRequests, failAt \in Faults :
       \E emitFails \in ProducerOutcomes(failAt) :
         Return("CreateIncident", <<>>, req, failAt,
                HandlerCreateIncident(
                  WithProducer(World(store, nextOid, now, failAt), emitFails), req))

ReqGetAllIncidents ==
  /\ last = NoCall
  /\ \E order \in SortedOrders(store), failAt \in Faults :
       Return("GetAllIncidents", <<>>, <<>>, failAt,
              HandlerGetAllIncidents(World(store, nextOid, now, failAt), order))

ReqGetIncidentByID ==
  /\ last = NoCall
  /\ \E id \in GetCalls, failAt \in Faults :
       Return("GetByID", id, <<>>, failAt,
              HandlerGetIncidentByID(World(store, nextOid, now, failAt), id))

ReqUpdateIncidentStatus ==
  /\ last = NoCall
  /\ \E c \in StatusCalls, failAt \in Faults :
       \E emitFails \in ProducerOutcomes(failAt) :
         Return("UpdateIncidentStatus", c[1], [Status |-> c[2], AuthorEmail |-> c[3]], failAt,
                HandlerUpdateIncidentStatus(
                  WithProducer(World(store, nextOid, now, failAt), emitFails),
                  c[1], [Status |-> c[2], AuthorEmail |-> c[3]]))

ReqUpdateIncidentSeverity ==
  /\ last = NoCall
  /\ \E c \in SeverityCalls, failAt \in Faults :
       \E emitFails \in ProducerOutcomes(failAt) :
         Return("UpdateIncidentSeverity", c[1], [Severity |-> c[2], AuthorEmail |-> c[3]],
                failAt,
                HandlerUpdateIncidentSeverity(
                  WithProducer(World(store, nextOid, now, failAt), emitFails),
                  c[1], [Severity |-> c[2], AuthorEmail |-> c[3]]))

ReqAddNoteToIncident ==
  /\ last = NoCall
  /\ \E c \in NoteCalls, failAt \in Faults :
       \E emitFails \in ProducerOutcomes(failAt) :
         Return("AddNoteToIncident", c[1], c[2], failAt,
                HandlerAddNoteToIncident(
                  WithProducer(World(store, nextOid, now, failAt), emitFails), c[1], c[2]))

ReqAddWatcherToIncident ==
  /\ last = NoCall
  /\ \E c \in WatcherCalls, failAt \in Faults :
       Return("AddWatcherToIncident", c[1], [Email |-> c[2]], failAt,
              HandlerAddWatcherToIncident(World(store, nextOid, now, failAt),
                                          c[1], [Email |-> c[2]]))

(* the handler hands the result of the call to the client *)
Respond ==
  /\ last # NoCall
  /\ last' = NoCall
  /\ UNCHANGED <<store, now, nextOid, procs>>

(* the clock has been read at its present value: an incident was written
   at this time *)
ClockRead == \E i \in 1..Len(store) : store[i].UpdatedAt = now

(* time passes between two writes *)
Tick ==
  /\ last = NoCall
  /\ ClockRead
  /\ now < MaxClock
  /\ now' = now + 1
  /\ UNCHANGED <<store, nextOid, last, procs>>

Next ==
  \/ ReqCreateIncident
  \/ ReqGetAllIncidents
  \/ ReqGetIncidentByID
  \/ ReqUpdateIncidentStatus
  \/ ReqUpdateIncidentSeverity
  \/ ReqAddNoteToIncident
  \/ ReqAddWatcherToIncident
  \/ Respond
  \/ Tick

Spec == Init /\ [][Next]_vars

----------------------------------------------------------------------------
(* Concurrent requests: each runs IncidentService.CreateIncident or
   IncidentService.UpdateIncidentStatus on its own goroutine, and the calls
   interleave at the store calls: the read of the next key and the insert,
   the read of the incident and the write of its status.  SpecConcurrent
   has the creations alone, SpecStatusRace the status updates with them. *)

CreateReadKey(p) ==
  /\ procs[p].pc = "idle"
  /\ \E c \in CreateRequests :
       LET Op(failAt) == CreateIncidentPrepare(World(store, nextOid, now, failAt), c)
       IN \E failAt \in 0..Len(Op(0).w.calls) :
            LET r == Op(failAt)
            IN /\ r.w.oid - 1 <= MaxObjectIDs
               /\ nextOid' = r.w.oid
               /\ procs' = [procs EXCEPT ![p] =
                    [pc |-> IF r.err = <<>> THEN "insert" ELSE "done", id |-> <<>>, req |-> c,
                     incident |-> r.val, seen |-> Len(store), ret |-> <<>>,
                     err |-> r.err, emitted |-> <<>>, failed |-> failAt # 0]]
               /\ UNCHANGED <<store, now, last>>

CreateInsert(p) ==
  /\ procs[p].pc = "insert"
  /\ LET Op(failAt) ==
           CreateIncidentPersist(World(store, nextOid, now, failAt), procs[p].incident[1])
     IN \E failAt \in 0..Len(Op(0).w.calls) :
          LET r == Op(failAt)
          IN /\ r.w.oid - 1 <= MaxObjectIDs
             /\ store' = r.w.store
             /\ nextOid' = r.w.oid
             /\ procs' = [procs EXCEPT ![p] =
                  [@ EXCEPT !.pc = "done", !.ret = r.val, !.err = r.err,
                            !.emitted = r.w.events, !.failed = failAt # 0]]
             /\ UNCHANGED <<now, last>>

(* the status updates that run concurrently: on key 1, without author
   email *)
StatusRaceCalls == {Key1} \X {Open, InProgress, Resolved, Closed}

(* UpdateIncidentStatus reads the incident and checks the transition
   against the status it read *)
StatusRead(p) ==
  /\ procs[p].pc = "idle"
  /\ \E c \in StatusRaceCalls :
       LET req == [Status |-> c[2], AuthorEmail |-> EmailEmpty]
           r == UpdateIncidentStatusCheck(World(store, nextOid, now, 0), c[1], req)
       IN /\ procs' = [procs EXCEPT ![p] =
               [IdleFrame EXCEPT !.pc = IF r.err = <<>> THEN "write" ELSE "updated",
                                 !.id = c[1], !.req = req, !.incident = r.val,
                                 !.err = r.err]]
          /\ UNCHANGED <<store, now, nextOid, last>>

(* UpdateIncidentStatus writes the status it was asked for *)
StatusWrite(p) ==
  /\ procs[p].pc = "write"
  /\ LET r == UpdateIncidentStatusPersist(World(store, nextOid, now, 0), procs[p].id,
                                          procs[p].req, procs[p].incident[1])
     IN /\ r.w.oid - 1 <= MaxObjectIDs
        /\ store' = r.w.store
        /\ nextOid' = r.w.oid
        /\ procs' = [procs EXCEPT ![p] =
             [@ EXCEPT !.pc = "updated", !.ret = r.val, !.err = r.err,
                       !.emitted = r.w.events]]
        /\ UNCHANGED <<now, last>>

(* the call has returned and the goroutine serves the next request *)
Finish(p) ==
  /\ procs[p].pc \in {"done", "updated"}
  /\ procs' = [procs EXCEPT ![p] = IdleFrame]
  /\ UNCHANGED <<store, now, nextOid, last>>

(* time passes *)
TickConcurrent ==
  /\ now < MaxClock
  /\ now' = now + 1
  /\ UNCHANGED <<store, nextOid, last, procs>>

NextConcurrent ==
  \/ \E p \in Procs : CreateReadKey(p)
  \/ \E p \in Procs : CreateInsert(p)
  \/ TickConcurrent

SpecConcurrent == Init /\ [][NextConcurrent]_vars

(* the incident whose status the concurrent requests update is created, by
   a call of CreateIncident that runs alone *)
CreateFirst ==
  /\ store = <<>>
  /\ \E req \in PlainCreateRequests :
       LET r == CreateIncident(World(store, nextOid, now, 0), req)
       IN /\ r.w.oid - 1 <= MaxObjectIDs
          /\ store' = r.w.store
          /\ nextOid' = r.w.oid
          /\ UNCHANGED <<now, last, procs>>

(* concurrent requests that update the status of an incident, each
   goroutine serving one request after the other *)
NextStatusRace ==
  \/ CreateFirst
  \/ \E p \in Procs : StatusRead(p)
  \/ \E p \in Procs : StatusWrite(p)
  \/ \E p \in Procs : Finish(p)
  \/ TickConcurrent

SpecStatusRace == Init /\ [][NextStatusRace]_vars

(* the notes that are added concurrently: on key 1, of two authors *)
NoteRaceCalls ==
  {Key1} \X {[Content |-> "n", AuthorEmail |-> EmailA, Type |-> "update"],
             [Content |-> "m", AuthorEmail |-> EmailB, Type |-> "resolution"]}

(* the severity updates that run concurrently: on key 1, without author
   email *)
SeverityRaceCalls == {Key1} \X {High}

(* the call of goroutine p returns r: the store is as the call left it *)
Returns(p, r) ==
  /\ r.w.oid - 1 <= MaxRaceObjectIDs
  /\ store' = r.w.store
  /\ nextOid' = r.w.oid
  /\ procs' = [procs EXCEPT ![p] =
       [@ EXCEPT !.pc = "updated", !.ret = r.val, !.err = r.err,
                 !.emitted = r.w.events]]
  /\ UNCHANGED <<now, last>>

(* AddNoteToIncident reads the incident *)
NoteRead(p) ==
  /\ procs[p].pc = "idle"
  /\ \E c \in NoteRaceCalls :
       LET r == AddNoteToIncidentRead(World(store, nextOid, now, 0), c[1], c[2])
       IN /\ procs' = [procs EXCEPT ![p] =
               [IdleFrame EXCEPT !.pc = IF r.err = <<>> THEN "note" ELSE "updated",
                                 !.id = c[1], !.req = c[2], !.incident = r.val,
                                 !.err = r.err]]
          /\ UNCHANGED <<store, now, nextOid, last>>

(* AddNoteToIncident pushes its note *)
NoteWrite(p) ==
  /\ procs[p].pc = "note"
  /\ Returns(p, AddNoteToIncidentPersist(World(store, nextOid, now, 0), procs[p].id,
                                         procs[p].req, procs[p].incident[1]))

(* UpdateIncidentSeverity reads the incident *)
SeverityRead(p) ==
  /\ procs[p].pc = "idle"
  /\ \E c \in SeverityRaceCalls :
       LET req == [Severity |-> c[2], AuthorEmail |-> EmailEmpty]
           r == UpdateIncidentSeverityCheck(World(store, nextOid, now, 0), c[1], req)
       IN /\ procs' = [procs EXCEPT ![p] =
               [IdleFrame EXCEPT !.pc = IF r.err = <<>> THEN "severity" ELSE "updated",
                                 !.id = c[1], !.req = req, !.incident = r.val,
                                 !.err = r.err]]
          /\ UNCHANGED <<store, now, nextOid, last>>

(* UpdateIncidentSeverity writes the severity it was asked for *)
SeverityWrite(p) ==
  /\ procs[p].pc = "severity"
  /\ Returns(p, UpdateIncidentSeverityPersist(World(store, nextOid, now, 0), procs[p].id,
                                              procs[p].req))

(* both calls have returned and the goroutines serve the next two requests *)
FinishBoth ==
  /\ \A p \in Procs : procs[p].pc = "updated"
  /\ procs' = [p \in Procs |-> IdleFrame]
  /\ UNCHANGED <<store, now, nextOid, last>>

(* pairs of concurrent requests that change one incident: notes, status
   updates and severity updates, their store calls interleaved in every
   order *)
NextUpdateRace ==
  \/ CreateFirst
  \/ \E p \in Procs : NoteRead(p)
  \/ \E p \in Procs : NoteWrite(p)
  \/ \E p \in Procs : StatusRead(p)
  \/ \E p \in Procs : StatusWrite(p)
  \/ \E p \in Procs : SeverityRead(p)
  \/ \E p \in Procs : SeverityWrite(p)
  \/ FinishBoth
  \/ TickConcurrent

SpecUpdateRace == Init /\ [][NextUpdateRace]_vars

----------------------------------------------------------------------------
(* Properties *)

(* the transition table of the status machine, as pairs <<from, to>> *)
TransitionTable ==
  {<<"open", "in_progress">>, <<"open", "resolved">>, <<"open", "closed">>,
   <<"in_progress", "open">>, <<"in_progress", "resolved">>, <<"in_progress", "closed">>,
   <<"resolved", "open">>, <<"resolved", "in_progress">>, <<"resolved", "closed">>,
   <<"closed", "open">>}

Statuses == {"open", "in_progress", "resolved", "closed"}

Severities == {"low", "medium", "high", "critical"}

(* the position in st of the incident whose key the identifier id is the
   decimal form of, 0 if there is none *)
AddressedAt(st, id) ==
  LET k == Atoi(id)
      hits == {i \in 1..Len(st) : st[i].IncidentKey = k.val}
  IN IF k.err = <<>> /\ hits # {} THEN Min(hits) ELSE 0

(* the last call ran with a healthy store *)
NoFault == last.failAt = 0

(* the last call wrote to the store *)
Wrote == \E j \in 1..Len(last.calls) : last.calls[j].op # "FindOne" /\ last.failAt # j

(* C1: UpdateStatus without author email on an existing incident, for a pair
   <<from, to>> of the transition table, succeeds and leaves the stored
   status of the incident at to. *)
C1_AllowedTransitionSucceeds ==
  LET i == AddressedAt(last.pre, last.id)
  IN (/\ last.op = "UpdateIncidentStatus"
      /\ NoFault
      /\ Trim(last.req.AuthorEmail, " ") = <<>>
      /\ i # 0
      /\ <<last.pre[i].Status, last.req.Status>> \in TransitionTable)
     => (/\ last.err = <<>>
         /\ store[i].Status = last.req.Status)

(* a closed incident has been reopened *)
C1_Witness ==
  LET i == AddressedAt(last.pre, last.id)
  IN /\ last.op = "UpdateIncidentStatus"
     /\ last.err = <<>>
     /\ i # 0
     /\ last.pre[i].Status = "closed"
     /\ store[i].Status = "open"

(* C2: UpdateStatus on an existing incident for a pair of valid statuses that
   is not in the transition table fails with an invalid-transition error,
   writes nothing to the store (the store is unchanged), and emits no event,
   whatever the author email. *)
C2_ForbiddenTransitionRejected ==
  LET i == AddressedAt(last.pre, last.id)
  IN (/\ last.op = "UpdateIncidentStatus"
      /\ NoFault
      /\ i # 0
      /\ last.req.Status \in Statuses
      /\ <<last.pre[i].Status, last.req.Status>> \notin TransitionTable)
     => (/\ last.err # <<>>
         /\ Head(last.err) = "invalid status transition: "
         /\ last.ret = <<>>
         /\ store = last.pre
         /\ ~ Wrote
         /\ last.emitted = <<>>)

(* a closed incident was asked to go to in_progress, with an author email *)
C2_Witness ==
  LET i == AddressedAt(last.pre, last.id)
  IN /\ last.op = "UpdateIncidentStatus"
     /\ i # 0
     /\ last.pre[i].Status = "closed"
     /\ last.req.Status = "in_progress"
     /\ last.req.AuthorEmail = EmailA
     /\ last.err # <<>>
     /\ store = last.pre

(* C3: a successful CreateIncident returns and stores an incident with
   status open, an id that no incident stored before has, an assigned key,
   and createdAt equal to updatedAt. *)
C3_CreatedIncidentShape ==
  (last.op = "CreateIncident" /\ last.err = <<>>)
  => (/\ Len(last.ret) = 1
      /\ last.ret[1].Status = "open"
      /\ last.ret[1].ID # NilObjectID
      /\ \A i \in 1..Len(last.pre) : last.pre[i].ID # last.ret[1].ID
      /\ last.ret[1].IncidentKey >= 1
      /\ last.ret[1].CreatedAt = last.ret[1].UpdatedAt
      /\ store = Append(last.pre, last.ret[1]))

(* a second incident has been created *)
C3_Witness ==
  /\ last.op = "CreateIncident"
  /\ last.err = <<>>
  /\ Len(last.pre) = 1
  /\ Len(store) = 2

(* C4: with one call at a time, the stored keys are exactly 1..n in the
   order of creation, and a creation that fails stores nothing and takes no
   key. *)
C4_KeysAreOneToN ==
  /\ \A i \in 1..Len(store) : store[i].IncidentKey = i
  /\ (last.op = "CreateIncident" /\ last.err # <<>>) => store = last.pre

(* the second creation succeeded *)
C4_Witness ==
  /\ last.op = "CreateIncident"
  /\ last.err = <<>>
  /\ Len(store) = 2
  /\ store[2].IncidentKey = 2

(* C5: two concurrent CreateIncident calls that both read the highest key
   before either inserts both succeed, and their two incidents, distinct
   by id, are stored with the same key; an insert that the driver does not
   fail is never rejected. *)
C5_ConcurrentCreatesShareKey ==
  /\ \A p \in Procs :
       (procs[p].pc = "done" /\ procs[p].incident # <<>> /\ ~ procs[p].failed)
       => (/\ procs[p].err = <<>>
           /\ \E i \in 1..Len(store) : store[i] = procs[p].ret[1])
  /\ \A p, q \in Procs :
       (/\ p # q
        /\ procs[p].pc = "done" /\ procs[p].err = <<>>
        /\ procs[q].pc = "done" /\ procs[q].err = <<>>
        /\ procs[p].seen = procs[q].seen)
       => (/\ procs[p].ret[1].IncidentKey = procs[q].ret[1].IncidentKey
           /\ procs[p].ret[1].ID # procs[q].ret[1].ID)

(* two stored incidents carry the same key *)
C5_Witness ==
  \E i, j \in 1..Len(store) :
    /\ i # j
    /\ store[i].IncidentKey = store[j].IncidentKey
    /\ store[i].ID # store[j].ID

(* the error err carries the message segment seg *)
ErrHas(err, seg) == \E j \in 1..Len(err) : err[j] = seg

(* the last call made the store call of the repository method and the
   driver did not fail it *)
CallDone(method) ==
  \E j \in 1..Len(last.calls) : last.calls[j].method = method /\ last.failAt # j

(* the driver failed a store call that the last call made after its call of
   the repository method *)
FailedAfter(method) ==
  \E j \in 1..Len(last.calls) : last.calls[j].method = method /\ last.failAt > j

(* the incident that the update methods of the repository find under the
   identifier of the last call: its position in the store before the call,
   0 if there is none *)
StoredAt(id) ==
  LET o == ObjectIDFromHex(id)
      hits == {i \in 1..Len(last.pre) : last.pre[i].ID = o.val}
  IN IF o.err = <<>> /\ hits # {} THEN Min(hits) ELSE 0

(* the last call has persisted the status it was asked for *)
StatusPersisted ==
  last.op = "UpdateIncidentStatus" /\ CallDone("UpdateStatus")

(* the last call has persisted the severity it was asked for *)
SeverityPersisted ==
  /\ last.op = "UpdateIncidentSeverity"
  /\ CallDone("UpdateSeverity")
  /\ StoredAt(last.id) # 0

(* the chained AddWatcher step of the last call fails: the driver fails one
   of its store calls, the email fails validation, or the repository finds
   no incident under the identifier *)
WatcherStepFails(method) ==
  \/ FailedAfter(method)
  \/ validateEmail(last.req.AuthorEmail) # <<>>
  \/ StoredAt(last.id) = 0

(* C6: UpdateStatus on an existing incident, addressed by the identifier
   that GetByID accepts, with an allowed transition and a non-blank valid
   author email succeeds, returns the updated incident, and afterwards the
   watch list of the incident contains the author email. *)
C6_UpdateStatusAddsWatcher ==
  LET i == AddressedAt(last.pre, last.id)
  IN (/\ last.op = "UpdateIncidentStatus"
      /\ NoFault
      /\ i # 0
      /\ <<last.pre[i].Status, last.req.Status>> \in TransitionTable
      /\ Trim(last.req.AuthorEmail, " ") # <<>>
      /\ validateEmail(last.req.AuthorEmail) = <<>>)
     => (/\ last.err = <<>>
         /\ Len(last.ret) = 1
         /\ last.ret[1].Status = last.req.Status
         /\ \E j \in 1..Len(store[i].WatchList) :
              store[i].WatchList[j].Email = last.req.AuthorEmail)

(* C7: UpdateSeverity on an existing incident, addressed by the identifier
   that GetByID accepts, with a valid severity and an author email that is
   blank or valid, succeeds from any current severity, and afterwards the
   stored severity is the requested one and the status is unchanged. *)
C7_UpdateSeverityStores ==
  LET i == AddressedAt(last.pre, last.id)
  IN (/\ last.op = "UpdateIncidentSeverity"
      /\ NoFault
      /\ i # 0
      /\ last.req.Severity \in Severities
      /\ \/ Trim(last.req.AuthorEmail, " ") = <<>>
         \/ validateEmail(last.req.AuthorEmail) = <<>>)
     => (/\ last.err = <<>>
         /\ store[i].Severity = last.req.Severity
         /\ store[i].Status = last.pre[i].Status)

(* C8: in UpdateStatus and UpdateSeverity with a non-blank author email,
   when the primary store update succeeded and the chained AddWatcher step
   fails, the new status or severity stays persisted, the call returns the
   partial-failure error, which is not the plain failure error, and returns
   no incident. *)
C8_PartialFailureKeepsPrimary ==
  LET i == AddressedAt(last.pre, last.id)
  IN /\ (/\ StatusPersisted
          /\ Trim(last.req.AuthorEmail, " ") # <<>>
          /\ WatcherStepFails("UpdateStatus"))
         => (/\ store[i].Status = last.req.Status
             /\ last.err # <<>>
             /\ Head(last.err) = "status updated but failed to add watcher to incident: "
             /\ ~ ErrHas(last.err, "failed to update incident status: ")
             /\ last.ret = <<>>)
     /\ (/\ SeverityPersisted
          /\ Trim(last.req.AuthorEmail, " ") # <<>>
          /\ WatcherStepFails("UpdateSeverity"))
         => (/\ store[i].Severity = last.req.Severity
             /\ last.err # <<>>
             /\ Head(last.err) =
                  "updated incident severity but failed to add watcher to incident: "
             /\ ~ ErrHas(last.err, "failed to update incident severity: ")
             /\ last.ret = <<>>)

(* the status of an open incident was moved on and stayed so, and then the
   driver failed the read of the chained AddWatcher step, for a valid
   author email *)
C8_Witness ==
  LET i == AddressedAt(last.pre, last.id)
  IN /\ StatusPersisted
     /\ last.req.AuthorEmail = EmailA
     /\ last.failAt = 3
     /\ i # 0
     /\ last.pre[i].Status = "open"
     /\ store[i].Status = "in_progress"
     /\ last.err # <<>>
     /\ last.ret = <<>>

(* the last call ended with a validation error: invalid severity, invalid
   status or invalid email format *)
EndedWithValidationError ==
  /\ last.err # <<>>
  /\ \/ Head(last.err) \in {"invalid severity: ", "invalid status: "}
     \/ ErrHas(last.err, "invalid email format: ")

(* C9: a call that ends with a validation error has made no store call and
   leaves every stored incident unchanged. *)
C9_ValidationBeforeStore ==
  EndedWithValidationError => (last.calls = <<>> /\ store = last.pre)

(* C10: whenever UpdateStatus has persisted a new status, the call has
   emitted an incident.status.updated event with the id of the incident
   and the new status; likewise UpdateSeverity and incident.severity.updated;
   whatever the outcome of the chained watcher add. *)
C10_EventAfterPersistence ==
  LET i == AddressedAt(last.pre, last.id)
  IN /\ StatusPersisted
         => \E j \in 1..Len(last.emitted) :
              /\ last.emitted[j].EventType = "incident.status.updated"
              /\ last.emitted[j].Id = Hex(store[i].ID)
              /\ last.emitted[j].Status = last.req.Status
     /\ SeverityPersisted
         => \E j \in 1..Len(last.emitted) :
              /\ last.emitted[j].EventType = "incident.severity.updated"
              /\ last.emitted[j].Id = Hex(store[i].ID)
              /\ last.emitted[j].Severity = last.req.Severity

(* the call of the last request run again from the state before it, with
   the same failed store call and a producer that fails if emitFails *)
Replay(emitFails) ==
  LET w == WithProducer(World(last.pre, last.preOid, now, last.failAt), emitFails)
  IN CASE last.op = "CreateIncident" -> HandlerCreateIncident(w, last.req)
       [] last.op = "UpdateIncidentStatus" -> HandlerUpdateIncidentStatus(w, last.id, last.req)
       [] last.op = "UpdateIncidentSeverity" ->
            HandlerUpdateIncidentSeverity(w, last.id, last.req)
       [] last.op = "AddNoteToIncident" -> HandlerAddNoteToIncident(w, last.id, last.req)

(* C11: in CreateIncident, UpdateStatus, UpdateSeverity and AddNote a failure
   reported by the producer changes neither the result nor the store: the
   call returns the incident and no error, exactly as the same call does
   with a producer that succeeds, the store is the same, the write is in
   it, and the event was handed over once. *)
C11_EmitterFailureIgnored ==
  (/\ last.op \in {"CreateIncident", "UpdateIncidentStatus", "UpdateIncidentSeverity",
                    "AddNoteToIncident"}
   /\ last.emitFails)
  => (/\ last.err = <<>>
      /\ Len(last.ret) = 1
      /\ last.ret = Replay(FALSE).val
      /\ Replay(FALSE).err = <<>>
      /\ last.code = Replay(FALSE).code
      /\ store = Replay(FALSE).w.store
      /\ store # last.pre
      /\ \E i \in 1..Len(store) : store[i] = last.ret[1]
      /\ Len(last.emitted) = 1)

(* the producer failed on the event of a status update, and the status is
   stored all the same *)
C11_Witness ==
  LET i == AddressedAt(last.pre, last.id)
  IN /\ last.op = "UpdateIncidentStatus"
     /\ last.emitFails
     /\ i # 0
     /\ last.pre[i].Status = "open"
     /\ store[i].Status = "resolved"
     /\ last.err = <<>>

----------------------------------------------------------------------------
(* the notes that GetByID returns for path identifier id over store st,
   <<>> when it returns an error *)
NotesRead(st, id) ==
  LET g == GetByID(World(st, nextOid, now, 0), id)
  IN IF g.err = <<>> THEN g.val[1].Notes ELSE <<>>

(* the ids of the incidents and notes in store st *)
StoredIDs(st) ==
  {st[i].ID : i \in 1..Len(st)}
    \cup UNION {{st[i].Notes[j].ID : j \in 1..Len(st[i].Notes)} : i \in 1..Len(st)}

(* C12: after a successful AddNote, GetByID on the same identifier returns
   the notes the incident had before, unchanged and in the same order,
   followed by exactly one note that has the requested content, author and
   type and an id that no stored incident or note had. *)
C12_NoteAppended ==
  (last.op = "AddNoteToIncident" /\ last.err = <<>>) =>
    LET old == NotesRead(last.pre, last.id)
        new == NotesRead(store, last.id)
        note == new[Len(new)]
    IN /\ GetByID(World(store, nextOid, now, 0), last.id).err = <<>>
       /\ Len(new) = Len(old) + 1
       /\ SubSeq(new, 1, Len(old)) = old
       /\ note.Content = last.req.Content
       /\ note.AuthorEmail = last.req.AuthorEmail
       /\ note.Type = last.req.Type
       /\ note.ID # NilObjectID
       /\ note.ID \notin StoredIDs(last.pre)

(* a note was added to an incident that already had a note *)
C12_Witness ==
  /\ last.op = "AddNoteToIncident"
  /\ last.err = <<>>
  /\ NotesRead(last.pre, last.id) # <<>>
  /\ Len(NotesRead(store, last.id)) = 2

----------------------------------------------------------------------------
(* path identifier id addresses an incident of store st *)
Exists(st, id) == GetByID(World(st, nextOid, now, 0), id).err = <<>>

(* what the validate tags of AddNoteRequest ask of a note *)
NoteInvalid(req) ==
  \/ Len(req.Content) < ContentMin
  \/ Len(req.Content) > ContentMax
  \/ req.Type \notin NoteTypes

(* C13: over handler and service, AddNote on an existing incident fails
   and stores nothing when the content is empty or longer than 1000
   characters or the type is no NoteType, and succeeds for a recognised
   type with a content of 1 to 1000 characters. *)
C13_InvalidNoteRejected ==
  (last.op = "AddNoteToIncident" /\ last.failAt = 0 /\ Exists(last.pre, last.id)) =>
    IF NoteInvalid(last.req)
      THEN last.err # <<>> /\ store = last.pre
      ELSE last.err = <<>>

----------------------------------------------------------------------------
(* C14: over handler and service, a creation request with a valid severity
   and no author email succeeds when its title has 3 to 255 characters,
   and fails with no incident stored when the title is shorter or longer. *)
C14_TitleBounds ==
  (/\ last.op = "CreateIncident"
   /\ last.failAt = 0
   /\ last.req.Severity \in {Low, Medium, High, Critical}
   /\ last.req.AuthorEmail = EmailEmpty) =>
    IF Len(last.req.Title) \in TitleMin..TitleMax
      THEN last.err = <<>>
      ELSE last.err # <<>> /\ store = last.pre

----------------------------------------------------------------------------
(* the watch list that GetByID returns for path identifier id over store
   st, <<>> when it returns an error *)
WatchListRead(st, id) ==
  LET g == GetByID(World(st, nextOid, now, 0), id)
  IN IF g.err = <<>> THEN g.val[1].WatchList ELSE <<>>

(* the number of entries of watch list l with email e *)
Occurrences(l, e) == Cardinality({j \in 1..Len(l) : l[j].Email = e})

(* C15: AddWatcher with a valid email on an existing incident, addressed by
   the identifier that GetByID accepts, succeeds whether or not the email is
   on the watch list, and leaves the email on the list exactly once; a call
   that finds the email on the list leaves the list as it was. *)
C15_AddWatcherIdempotent ==
  (/\ last.op = "AddWatcherToIncident"
   /\ last.failAt = 0
   /\ Exists(last.pre, last.id)
   /\ validateEmail(last.req.Email) = <<>>) =>
    /\ last.err = <<>>
    /\ Occurrences(WatchListRead(store, last.id), last.req.Email) = 1
    /\ Occurrences(WatchListRead(last.pre, last.id), last.req.Email) = 1 =>
         WatchListRead(store, last.id) = WatchListRead(last.pre, last.id)

----------------------------------------------------------------------------
(* C16: AddWatcher on an existing incident with an email that fails the
   format check, the empty email included, returns the invalid-email error,
   and the store is as before: the watch list and updatedAt of the incident
   are unchanged. *)
C16_InvalidWatcherRejected ==
  (/\ last.op = "AddWatcherToIncident"
   /\ last.failAt = 0
   /\ Exists(last.pre, last.id)
   /\ validateEmail(last.req.Email) # <<>>) =>
    /\ last.err # <<>>
    /\ SubSeq(last.err, 1, 2) = <<"invalid email: ", "invalid email format: ">>
    /\ last.ret = <<>>
    /\ store = last.pre

(* a malformed email was offered for an incident that has a watcher *)
C16_Witness ==
  /\ last.op = "AddWatcherToIncident"
  /\ last.failAt = 0
  /\ last.req.Email = EmailBad
  /\ WatchListRead(last.pre, last.id) # <<>>
  /\ ErrHas(last.err, "invalid email: ")

----------------------------------------------------------------------------
(* path identifier id is the decimal form of the key of an incident of
   store st *)
KeyStored(st, id) ==
  /\ Atoi(id).err = <<>>
  /\ \E i \in 1..Len(st) : st[i].IncidentKey = Atoi(id).val

(* the operations that change a stored incident *)
UpdateOps ==
  {"UpdateIncidentStatus", "UpdateIncidentSeverity", "AddNoteToIncident",
   "AddWatcherToIncident"}

(* the request of the last call passes the checks that its operation makes
   before it looks the incident up *)
CheckedBeforeLookup ==
  /\ last.op = "UpdateIncidentStatus" => last.req.Status \in {Open, InProgress, Resolved, Closed}
  /\ last.op = "UpdateIncidentSeverity" => last.req.Severity \in {Low, Medium, High, Critical}
  /\ last.op = "AddNoteToIncident" => last.req.Content # ""

(* C17: UpdateStatus with a valid status, UpdateSeverity with a valid
   severity, AddNote and AddWatcher on an identifier that addresses no
   stored incident return the not-found error, change nothing in the store
   and emit no event; the only store call is the read of GetByID, made
   first, and it is made whenever the identifier is a decimal key. *)
C17_UnknownIdNotFound ==
  (/\ last.op \in UpdateOps
   /\ last.id # <<>>
   /\ CheckedBeforeLookup
   /\ ~ KeyStored(last.pre, last.id)) =>
    /\ last.err # <<>>
    /\ Head(last.err) = "incident not found: "
    /\ last.ret = <<>>
    /\ store = last.pre
    /\ last.emitted = <<>>
    /\ \A j \in 1..Len(last.calls) : last.calls[j].method = "GetByID"
    /\ Atoi(last.id).err = <<>> =>
         last.calls = <<[method |-> "GetByID", op |-> "FindOne"]>>

(* a note was offered for key 2 while only incident 1 was stored *)
C17_Witness ==
  /\ last.op = "AddNoteToIncident"
  /\ last.id = Key2
  /\ Len(last.pre) = 1
  /\ last.failAt = 0
  /\ last.err # <<>>
  /\ Len(last.calls) = 1

----------------------------------------------------------------------------
(* the email has a character that is no space *)
NotBlank(email) == \E j \in 1..Len(email) : email[j] # " "

(* C18: CreateIncident with a title, a valid severity and a healthy store
   succeeds with an empty watch list when the author email is empty or
   spaces only; succeeds with the watch list <<authorEmail>> and createdBy
   authorEmail when the email passes the format check; fails with the
   invalid-email error, with no store call and nothing stored, when it has
   a character other than a space and fails the format check. *)
C18_CreateAuthorEmail ==
  (/\ last.op = "CreateIncident"
   /\ last.failAt = 0
   /\ last.req.Title # ""
   /\ last.req.Severity \in {Low, Medium, High, Critical}) =>
    LET email == last.req.AuthorEmail
        stored == store[Len(store)]
    IN IF ~ NotBlank(email)
         THEN /\ last.err = <<>>
              /\ Len(store) = Len(last.pre) + 1
              /\ last.ret = <<stored>>
              /\ stored.WatchList = <<>>
       ELSE IF ValidateFormat(email) = <<>>
         THEN /\ last.err = <<>>
              /\ Len(store) = Len(last.pre) + 1
              /\ last.ret = <<stored>>
              /\ stored.WatchList = <<[Email |-> email]>>
              /\ stored.CreatedBy = email
       ELSE /\ last.err # <<>>
            /\ Head(last.err) = "invalid email: "
            /\ last.calls = <<>>
            /\ store = last.pre

(* an incident was created by an author with a valid email *)
C18_Witness ==
  /\ last.op = "CreateIncident"
  /\ last.err = <<>>
  /\ last.req.AuthorEmail = EmailA
  /\ store[Len(store)].WatchList = <<[Email |-> EmailA]>>

----------------------------------------------------------------------------
(* C19: GetByID and GetAll, whatever they return, leave every stored
   incident as it was, updatedAt included, hand no event to the producer,
   and make no store call other than reads. *)
C19_ReadsArePure ==
  last.op \in {"GetByID", "GetAllIncidents"} =>
    /\ store = last.pre
    /\ nextOid = last.preOid
    /\ last.emitted = <<>>
    /\ \A j \in 1..Len(last.calls) : last.calls[j].op \in {"FindOne", "Find", "All"}

(* an incident was read by its key at a time later than its last update *)
C19_Witness ==
  /\ last.op = "GetByID"
  /\ last.err = <<>>
  /\ last.ret # <<>>
  /\ last.ret[1].UpdatedAt < now

----------------------------------------------------------------------------
(* C20: a GetAll that succeeds returns every stored incident exactly once,
   and of two returned incidents the one with the later createdAt comes
   first, whatever updates have moved their updatedAt since. *)
C20_GetAllNewestFirst ==
  (last.op = "GetAllIncidents" /\ last.err = <<>>) =>
    /\ Len(last.ret) = Len(store)
    /\ \A i \in 1..Len(store) :
         Cardinality({j \in 1..Len(last.ret) : last.ret[j] = store[i]}) = 1
    /\ \A a, b \in 1..Len(last.ret) :
         last.ret[a].CreatedAt > last.ret[b].CreatedAt => a < b

(* two incidents were listed, the older of which was updated after it was
   created and no earlier than the newer one *)
C20_Witness ==
  /\ last.op = "GetAllIncidents"
  /\ last.err = <<>>
  /\ Len(last.ret) = 2
  /\ last.ret[1].CreatedAt > last.ret[2].CreatedAt
  /\ last.ret[2].UpdatedAt > last.ret[2].CreatedAt
  /\ last.ret[2].UpdatedAt >= last.ret[1].UpdatedAt

----------------------------------------------------------------------------
(* the operations of the routes that name an incident in their path *)
PathOps == UpdateOps \cup {"GetByID"}

(* C21: a request of one of the five routes with an identifier in the path
   that addresses no stored incident, whose body passes the checks made
   before the lookup, is answered with status 404 when no store call
   fails. *)
C21_UnknownIdIs404 ==
  (/\ last.op \in PathOps
   /\ last.id # <<>>
   /\ last.failAt = 0
   /\ CheckedBeforeLookup
   /\ ~ KeyStored(last.pre, last.id)) =>
    last.code = StatusNotFound

----------------------------------------------------------------------------
(* the incident of store st with the decimal key id *)
Keyed(st, id) == st[Min({i \in 1..Len(st) : st[i].IncidentKey = Atoi(id).val})]

(* the request of the last call fails a validation: a creation with a
   severity outside the enum or an author email that fails the format
   check, a watcher with an email that fails the format check, a status
   update that the transition table forbids *)
ValidationFails ==
  \/ /\ last.op = "CreateIncident"
     /\ last.req.Title # ""
     /\ last.req.Severity # ""
     /\ \/ last.req.Severity \notin {Low, Medium, High, Critical}
        \/ NotBlank(last.req.AuthorEmail) /\ ValidateFormat(last.req.AuthorEmail) # <<>>
  \/ /\ last.op = "AddWatcherToIncident"
     /\ KeyStored(last.pre, last.id)
     /\ ValidateFormat(last.req.Email) # <<>>
  \/ /\ last.op = "UpdateIncidentStatus"
     /\ KeyStored(last.pre, last.id)
     /\ last.req.Status \in {Open, InProgress, Resolved, Closed}
     /\ validateStatusTransition(Keyed(last.pre, last.id).Status, last.req.Status) # <<>>

(* C22: a request that fails a validation and meets no store failure is
   answered with status 400, and status 500 is the answer only of calls in
   which a store call failed. *)
C22_ValidationIs400 ==
  /\ (ValidationFails /\ last.failAt = 0) => last.code = StatusBadRequest
  /\ last.code = StatusInternalServerError => last.failAt # 0

----------------------------------------------------------------------------
(* the incidents of store st that path identifier id names, by the hex form
   of the storage id or by the decimal form of the key *)
Named(st, id) ==
  {i \in 1..Len(st) :
     \/ id = Hex(st[i].ID)
     \/ Atoi(id).err = <<>> /\ st[i].IncidentKey = Atoi(id).val}

(* C23: GetByID given the storage id of a stored incident, or its key,
   returns that incident, and no operation given either identifier of a
   stored incident reports the incident as not found. *)
C23_LookupByEitherId ==
  (/\ last.op \in PathOps
   /\ last.failAt = 0
   /\ CheckedBeforeLookup
   /\ Named(last.pre, last.id) # {}) =>
    /\ last.op = "GetByID" =>
         /\ last.err = <<>>
         /\ \E i \in Named(last.pre, last.id) : last.ret = <<last.pre[i]>>
    /\ ~ ErrHas(last.err, "incident not found: ")

----------------------------------------------------------------------------
(* the transition table has the pair from -> to *)
TablePair(from, to) == validateStatusTransition(from, to) = <<>>

(* C24: every step that changes the persisted status of an incident takes
   it from a status to one that the transition table allows after it, and
   every status write of a call of UpdateIncidentStatus that succeeds,
   concurrent calls included, writes a status that the table allows after
   the status persisted at the time of the write: no self-transition is
   recorded and a closed incident moves to open only. *)
C24_StatusChangesFollowTable ==
  [][/\ \A i \in 1..Len(store) :
          (i <= Len(store') /\ store'[i].Status # store[i].Status)
            => TablePair(store[i].Status, store'[i].Status)
     /\ \A p \in Procs :
          (procs[p].pc = "write" /\ procs'[p].pc = "updated" /\ procs'[p].err = <<>>)
            => \A i \in 1..Len(store) :
                 store[i].ID = procs[p].incident[1].ID
                   => TablePair(store[i].Status, procs[p].req.Status)]_vars

----------------------------------------------------------------------------
(* the world of a call on the present store in which no store call and no
   event fails *)
Healthy == World(store, nextOid, now, 0)

(* UpdateIncidentStatus of the incident with key k to status t, without
   author email *)
Move(w, k, t) == UpdateIncidentStatus(w, Itoa(k), [Status |-> t, AuthorEmail |-> EmailEmpty])

(* the status of the incident with key k in world w *)
StatusIn(w, k) ==
  w.store[CHOOSE i \in 1..Len(w.store) : w.store[i].IncidentKey = k].Status

(* the worlds after the calls of UpdateIncidentStatus on the incident with
   key k that succeed in world w *)
Moved(w, k) == {r.w : r \in {x \in {Move(w, k, t) : t \in Statuses} : x.err = <<>>}}

(* the statuses that the incident with key k can be given by one successful
   call of UpdateIncidentStatus in world w *)
Steps(w, k) == {StatusIn(x, k) : x \in Moved(w, k)}

(* the statuses that the incident with key k can be given by successful
   calls of UpdateIncidentStatus: done are the statuses found, frontier has
   one world for each status found last *)
RECURSIVE Reachable(_, _, _)
Reachable(done, frontier, k) ==
  LET found == UNION {Moved(w, k) : w \in frontier}
      fresh == {StatusIn(x, k) : x \in found} \ done
  IN IF fresh = {} THEN done
     ELSE Reachable(done \cup fresh,
                    {CHOOSE x \in found : StatusIn(x, k) = t : t \in fresh}, k)

(* C25: in every store that the service reaches, seen between two calls
   and right after a successful call of UpdateIncidentStatus, every
   incident can be given every status by a finite sequence of successful
   UpdateIncidentStatus calls; a closed incident accepts open as its only
   next status, and an incident that is not open accepts open in one call. *)
C25_NoTerminalStatus ==
  (last.op = "none" \/ (last.op = "UpdateIncidentStatus" /\ last.err = <<>>)) =>
    \A i \in 1..Len(store) :
      LET k == store[i].IncidentKey
          s == store[i].Status
      IN /\ Reachable({s}, {Healthy}, k) = Statuses
         /\ s = Closed => Steps(Healthy, k) = {Open}
         /\ s # Open => Open \in Steps(Healthy, k)

(* a call has closed an incident *)
C25_Witness ==
  /\ last.op = "UpdateIncidentStatus"
  /\ last.err = <<>>
  /\ last.req.Status = Closed
  /\ \E i \in 1..Len(store) : store[i].Status = Closed /\ last.pre[i].Status # Closed

----------------------------------------------------------------------------
(* the fields of an incident that are written at its creation only *)
Identity(inc) ==
  [ID |-> inc.ID, IncidentKey |-> inc.IncidentKey, Title |-> inc.Title,
   CreatedAt |-> inc.CreatedAt, CreatedBy |-> inc.CreatedBy]

(* C26: a call of any operation, whether it succeeds, fails or fails
   partially, removes no incident and leaves the storage id, key, title,
   createdAt and createdBy of every incident that was stored before it
   unchanged. *)
C26_IdentityImmutable ==
  last.op # "none" =>
    /\ Len(store) >= Len(last.pre)
    /\ \A i \in 1..Len(last.pre) : Identity(store[i]) = Identity(last.pre[i])

(* a status update has changed an incident at a time later than its
   creation and then failed to add the watcher *)
C26_Witness ==
  /\ last.op = "UpdateIncidentStatus"
  /\ ErrHas(last.err, "status updated but failed to add watcher to incident: ")
  /\ \E i \in 1..Len(last.pre) :
       /\ store[i].Status # last.pre[i].Status
       /\ store[i].UpdatedAt > store[i].CreatedAt

----------------------------------------------------------------------------
(* the last call asked for a status or a severity that is not of the enum *)
EnumInvalid ==
  \/ last.op \in {"CreateIncident", "UpdateIncidentSeverity"} /\ last.req.Severity \notin Severities
  \/ last.op = "UpdateIncidentStatus" /\ last.req.Status \notin Statuses

(* C27: in every reachable state every stored incident has a status and a
   severity of the enums, and a call of CreateIncident, UpdateStatus or
   UpdateSeverity with any other value, the empty string included, fails
   without a store call and leaves the store as it was. *)
C27_EnumsHold ==
  /\ \A i \in 1..Len(store) :
       store[i].Status \in Statuses /\ store[i].Severity \in Severities
  /\ EnumInvalid => (last.err # <<>> /\ last.calls = <<>> /\ store = last.pre)

(* a status outside the enum was asked for a stored incident *)
C27_Witness ==
  /\ last.op = "UpdateIncidentStatus"
  /\ last.req.Status = "reopened"
  /\ KeyStored(last.pre, last.id)
  /\ last.err # <<>>

----------------------------------------------------------------------------
(* C28: in every reachable state, every email on the watch list of a
   stored incident is not empty and passes the format check, and no watch
   list has an email twice. *)
C28_WatchListValid ==
  \A i \in 1..Len(store) :
    LET l == store[i].WatchList
    IN /\ \A j \in 1..Len(l) : l[j].Email # <<>> /\ ValidateFormat(l[j].Email) = <<>>
       /\ \A j, k \in 1..Len(l) : l[j].Email = l[k].Email => j = k

(* a status update with a malformed author email has run on an incident
   that has a watcher *)
C28_Witness ==
  /\ last.op = "UpdateIncidentStatus"
  /\ last.req.AuthorEmail = EmailBad
  /\ CallDone("UpdateStatus")
  /\ WatchListRead(store, last.id) # <<>>

----------------------------------------------------------------------------
(* the update of repository method m on the incident at place i of the
   present store, with a healthy driver: a watcher that is on the list
   already where there is one, a severity, a status, a note *)
RepoWrite(m, i) ==
  LET id == Hex(store[i].ID)
      l == store[i].WatchList
  IN CASE m = "AddWatcherToIncident" ->
            RepoAddWatcherToIncident(Healthy, id, IF l = <<>> THEN [Email |-> EmailA] ELSE l[1])
       [] m = "UpdateSeverity" -> RepoUpdateSeverity(Healthy, id, High)
       [] m = "UpdateStatus" -> RepoUpdateStatus(Healthy, id, Open)
       [] m = "AddNote" ->
            RepoAddNote(Healthy, id,
                        [ID |-> NilObjectID, Content |-> "n", AuthorEmail |-> EmailA,
                         CreatedAt |-> 0, Type |-> "update"])

(* C29: an incident that a call of UpdateStatus, UpdateSeverity, AddNote or
   AddWatcher has changed has the time of the call as its updatedAt; each
   of the four repository updates, run between two calls on any stored
   incident, returns and stores it with the present time as updatedAt, the
   add of a watcher that is on the list included; updatedAt is never
   earlier than createdAt and no call moves it back. *)
C29_UpdatedAtRefreshed ==
  /\ \A i \in 1..Len(store) : store[i].UpdatedAt >= store[i].CreatedAt
  /\ \A i \in 1..Len(last.pre) : store[i].UpdatedAt >= last.pre[i].UpdatedAt
  /\ last.op \in UpdateOps =>
       \A i \in 1..Len(last.pre) : store[i] # last.pre[i] => store[i].UpdatedAt = now
  /\ last.op = "none" =>
       \A i \in 1..Len(store) :
         \A m \in {"UpdateStatus", "UpdateSeverity", "AddNote", "AddWatcherToIncident"} :
           LET r == RepoWrite(m, i)
           IN r.err = <<>> /\ r.val[1].UpdatedAt = now /\ r.w.store[i].UpdatedAt = now

(* a note was added to an incident that has a watcher, later than the
   incident was created *)
C29_Witness ==
  /\ last.op = "AddNoteToIncident"
  /\ last.err = <<>>
  /\ \E i \in 1..Len(last.pre) :
       /\ store[i] # last.pre[i]
       /\ store[i].WatchList # <<>>
       /\ store[i].UpdatedAt = now
       /\ last.pre[i].UpdatedAt < now

----------------------------------------------------------------------------
(* the event type that an operation emits and the repository method whose
   write it follows *)
EventOf(op) ==
  CASE op = "CreateIncident" -> [type |-> "incident.created", method |-> "Create"]
    [] op = "UpdateIncidentStatus" ->
         [type |-> "incident.status.updated", method |-> "UpdateStatus"]
    [] op = "UpdateIncidentSeverity" ->
         [type |-> "incident.severity.updated", method |-> "UpdateSeverity"]
    [] op = "AddNoteToIncident" -> [type |-> "incident.notes.added", method |-> "AddNote"]
    [] OTHER -> [type |-> "", method |-> ""]

(* the incident at place i of the store was inserted or changed by the
   last call *)
Written(i) == i > Len(last.pre) \/ store[i] # last.pre[i]

(* C30: a call that hands an event to the producer hands over exactly one,
   of the type of its operation, after the store write of that operation
   has succeeded, naming the incident that the write inserted or changed,
   and returns no error; a call that returns an error and a call of
   AddWatcher hand over none. *)
C30_EventFollowsWrite ==
  /\ last.err # <<>> => last.emitted = <<>>
  /\ last.op = "AddWatcherToIncident" => last.emitted = <<>>
  /\ last.emitted # <<>> =>
       /\ Len(last.emitted) = 1
       /\ last.emitted[1].EventType = EventOf(last.op).type
       /\ CallDone(EventOf(last.op).method)
       /\ \E i \in 1..Len(store) : Written(i) /\ Hex(store[i].ID) = last.emitted[1].Id

(* the event of a note added to a stored incident was handed over *)
C30_Witness ==
  /\ last.op = "AddNoteToIncident"
  /\ last.emitted # <<>>
  /\ last.emitted[1].EventType = "incident.notes.added"
  /\ \E i \in 1..Len(last.pre) : Written(i)

----------------------------------------------------------------------------

(* C32: a successful CreateIncident returns and stores as many notes as the
   request holds, in the order of the request, each with the content and the
   author email of the request's note, an empty type, the creation time of
   the incident and an id that the request's note, the incident, the other
   notes and the store before the call do not have; the slice of notes it
   builds is never nil, so a request whose notes are nil or empty stores an
   empty sequence of notes. *)
C32_CreateStoresNotes ==
  (last.op = "CreateIncident" /\ last.err = <<>>)
  => LET given == Elements(last.req.Notes)
         created == last.ret[1]
         notes == created.Notes
     IN /\ store[Len(store)].Notes = notes
        /\ Len(notes) = Len(given)
        /\ \A i \in 1..Len(notes) :
             /\ notes[i].Content = given[i].Content
             /\ notes[i].AuthorEmail = given[i].AuthorEmail
             /\ notes[i].Type = ""
             /\ notes[i].CreatedAt = created.CreatedAt
             /\ notes[i].ID # given[i].ID
             /\ notes[i].ID # created.ID
             /\ notes[i].ID \notin StoredIDs(last.pre)
             /\ \A j \in 1..Len(notes) : j # i => notes[j].ID # notes[i].ID
        /\ CreateIncidentNotes(World(last.pre, last.preOid, created.CreatedAt, 0),
                               last.req) # NilSlice

(* an incident has been created from a request with two notes of two
   authors *)
C32_Witness ==
  /\ last.op = "CreateIncident"
  /\ last.err = <<>>
  /\ Len(last.ret[1].Notes) = 2
  /\ last.ret[1].Notes[1].Content # last.ret[1].Notes[2].Content

----------------------------------------------------------------------------

(* what the request in flight of goroutine p asks for *)
AddsNote(p) == "Content" \in DOMAIN procs[p].req
SetsStatus(p) == "Status" \in DOMAIN procs[p].req
SetsSeverity(p) == "Severity" \in DOMAIN procs[p].req

(* the call of goroutine p has returned without error *)
Succeeded(p) == procs[p].pc = "updated" /\ procs[p].err = <<>>

(* the note that the call of goroutine p added, as the call returned it *)
NoteOf(p) == procs[p].ret[1].Notes[Len(procs[p].ret[1].Notes)]

(* C31: when two concurrent calls on one incident have both returned
   without error, whatever the order of their store calls, the stored
   incident holds the note of each call that added a note (two notes for
   two such calls), the status of the call that set the status and the
   severity of the call that set the severity; and a write of the
   repository to any stored incident changes only its own field and
   updatedAt. *)
C31_NoLostUpdate ==
  /\ (\A p \in Procs : Succeeded(p))
     => \A p \in Procs :
          LET inc == store[AddressedAt(store, procs[p].id)]
          IN /\ AddsNote(p)
                => /\ NoteOf(p).Content = procs[p].req.Content
                   /\ NoteOf(p).AuthorEmail = procs[p].req.AuthorEmail
                   /\ \E j \in 1..Len(inc.Notes) : inc.Notes[j] = NoteOf(p)
                   /\ \A q \in Procs \ {p} : AddsNote(q) => NoteOf(q).ID # NoteOf(p).ID
             /\ (SetsStatus(p) /\ \A q \in Procs \ {p} : ~ SetsStatus(q))
                => inc.Status = procs[p].req.Status
             /\ (SetsSeverity(p) /\ \A q \in Procs \ {p} : ~ SetsSeverity(q))
                => inc.Severity = procs[p].req.Severity
  /\ \A i \in 1..Len(store) :
       LET note == [ID |-> NilObjectID, Content |-> "n", AuthorEmail |-> EmailA,
                    CreatedAt |-> 0, Type |-> "update"]
           n == RepoAddNote(Healthy, Hex(store[i].ID), note)
           s == RepoUpdateStatus(Healthy, Hex(store[i].ID), Closed)
           v == RepoUpdateSeverity(Healthy, Hex(store[i].ID), High)
       IN /\ n.val = <<[store[i] EXCEPT
                          !.Notes = Append(@, [note EXCEPT !.ID = NewObjectID(nextOid),
                                                           !.CreatedAt = now]),
                          !.UpdatedAt = now]>>
          /\ s.val = <<[store[i] EXCEPT !.Status = Closed, !.UpdatedAt = now]>>
          /\ v.val = <<[store[i] EXCEPT !.Severity = High, !.UpdatedAt = now]>>
          /\ \A r \in {n, s, v} :
               \A j \in 1..Len(store) : j # i => r.w.store[j] = store[j]

(* two calls that both read the incident before either wrote have each added
   their note *)
C31_Witness ==
  /\ \A p \in Procs : Succeeded(p) /\ AddsNote(p)
  /\ procs[1].incident = procs[2].incident
  /\ NoteOf(1).Content # NoteOf(2).Content

====
